---- MODULE Spec2Model ----
(***************************************************************************)
(* portview: the interaction state machine of internal/tui (Model.Update   *)
(* and its key handlers), with the reconciler passes (mergeLabels,         *)
(* filterHidden, applyFilter) and the configuration's label store.         *)
(*                                                                         *)
(* Text (process names, labels, the filter text, the label input) is a     *)
(* sequence of one-character strings, so that substring search and case    *)
(* folding are computed.  Go slices are 0-based: filtered[cursor] in the   *)
(* source is filtered[cursor + 1] here.                                    *)
(***************************************************************************)
EXTENDS Integers, Sequences, FiniteSets, TLC

\* The fields of tui.Model (scanner and configPath never change), a history
\* variable, selected, kept by the key events (see Key), the state of a call
\* of scanner.CheckHealth, health (see StartCheck), the commands the runtime
\* is running, pending (see LoopInit), and a call of a listing parser, parse
\* (see ParseInit).
VARIABLES servers, filtered, cursor, mode, config, width, height,
          lastRefresh, filterText, labelInput, err,
          selected, health, pending, parse

vars == <<servers, filtered, cursor, mode, config, width, height,
          lastRefresh, filterText, labelInput, err,
          selected, health, pending, parse>>

modelVars == <<servers, filtered, cursor, mode, config, width, height,
               lastRefresh, filterText, labelInput, err, selected>>

\* The Model value Update receives: handlers take a Model m and return the new
\* Model with the command, as the value-receiver methods of the source do.
M ==
    [servers |-> servers, filtered |-> filtered, cursor |-> cursor, mode |-> mode,
     config |-> config, width |-> width, height |-> height,
     lastRefresh |-> lastRefresh, filterText |-> filterText,
     labelInput |-> labelInput, err |-> err]

-----------------------------------------------------------------------------
(* Bounds of the model *)

\* Longest server list a scan returns.
MaxScanLen == 2

\* Longest text typed into the filter or the label input.
MaxTextLen == 1
\* The scans counted in flight; MaxPending stands for that many or more.
MaxPending == 2
\* Longest hidden list.
MaxHidden == 4
\* Most lines of a listing handed to a parser, the header included.
MaxLines == 3
\* Most scans started in a behaviour in which the scans are told apart.
MaxStarts == 3

\* The runes typed in Filter and Label mode (both modes treat every rune alike).
TypedRunes == {"q"}

-----------------------------------------------------------------------------
(* Constants of the program *)

modeNormal == 0
modeFilter == 1
modeLabel == 2
modeConfirmKill == 3
modeHelp == 4

Modes == {modeNormal, modeFilter, modeLabel, modeConfirmKill, modeHelp}

\* ti.CharLimit
CharLimit == 30

configPath == "config.yaml"

NoErr == "nil"
ScanErr == "scan failed"
SaveErr == "save failed"
KillErr == "kill failed"

\* A slice that is nil, and one that holds the elements s.
NilList == [nil |-> TRUE, servers |-> <<>>]
List(s) == [nil |-> FALSE, servers |-> s]

\* No parser has been called.
NoParse == [by |-> "none", input |-> <<>>, done |-> FALSE, result |-> NilList]

\* The runtime runs no command.
NoPending == [scan |-> 0, tick |-> 0, kill |-> 0, save |-> 0, epoch |-> 0]

\* No call of CheckHealth is in progress.
NoCheck ==
    [pc |-> "idle", input |-> <<>>, result |-> <<>>, i |-> 0, wg |-> 0,
     task |-> <<>>, acc |-> {}]

\* time.Time{} and the value of time.Now() at a scan completion.
ZeroTime == "zero"
Now == "now"

-----------------------------------------------------------------------------
(* Text *)

Digits == <<"0", "1", "2", "3", "4", "5", "6", "7", "8", "9">>

\* fmt.Sprintf("%d", n) for n >= 0
RECURSIVE Itoa(_)
Itoa(n) ==
    IF n < 10 THEN <<Digits[n + 1]>>
    ELSE Append(Itoa(n \div 10), Digits[(n % 10) + 1])

ToLowerChar(c) ==
    CASE c = "Q" -> "q"
      [] c = "B" -> "b"
      [] OTHER -> c

\* strings.ToLower
ToLower(s) == IF s = <<>> THEN <<>> ELSE [i \in 1..Len(s) |-> ToLowerChar(s[i])]

\* strings.Contains
Contains(s, sub) ==
    \E i \in 0..(Len(s) - Len(sub)) : SubSeq(s, i + 1, i + Len(sub)) = sub

-----------------------------------------------------------------------------
(* scanner.Server and the scan results the environment produces *)

Server(port, pid, process) ==
    [Port |-> port, PID |-> pid, Process |-> process, Command |-> <<>>,
     State |-> "LISTEN", Label |-> <<>>, Healthy |-> FALSE]

\* The sockets the scanner can discover, in discovery order: two listeners on
\* one port (lsof lists an IPv4 and an IPv6 socket), and one whose PID and
\* process name were not resolved.
Discovered ==
    << Server(8080, 1, <<"q">>), Server(8080, 2, <<"Q">>), Server(3000, 0, <<>>) >>

Entities == {Discovered[i] : i \in 1..Len(Discovered)}

\* The sub-lists of s, in the order of s.
RECURSIVE SubLists(_)
SubLists(s) ==
    IF s = <<>> THEN {<<>>}
    ELSE LET rest == SubLists(Tail(s))
         IN rest \cup {<<Head(s)>> \o r : r \in rest}

\* A scan returns some of the sockets, in discovery order.
ScanResults == {r \in SubLists(Discovered) : Len(r) <= MaxScanLen}

-----------------------------------------------------------------------------
(* config.Config *)

\* config.Default()
Default ==
    [RefreshInterval |-> 3, PortRange |-> [Min |-> 1024, Max |-> 65535],
     Labels |-> <<>>, Hidden |-> <<>>]

\* A loaded configuration with a stored label and a hidden port.
Loaded ==
    [RefreshInterval |-> 1, PortRange |-> [Min |-> 0, Max |-> 0],
     Labels |-> (8080 :> <<"q">>), Hidden |-> <<3000>>]

InitConfigs == {Default, Loaded}

\* c.Labels[port]: the zero value "" when the key is absent.
LabelOf(c, port) ==
    IF port \in DOMAIN c.Labels THEN c.Labels[port] ELSE <<>>

SetLabel(c, port, label) ==
    [c EXCEPT !.Labels =
        [p \in (DOMAIN c.Labels) \cup {port} |->
            IF p = port THEN label ELSE c.Labels[p]]]

\* Mutant of RemoveLabel: the entry is kept with an empty label.
RemoveLabelKeepsKey(c, port) ==
    [c EXCEPT !.Labels =
        [p \in (DOMAIN c.Labels) \cup {port} |->
            IF p = port THEN <<>> ELSE c.Labels[p]]]

RemoveLabel(c, port) ==
    [c EXCEPT !.Labels = [p \in (DOMAIN c.Labels) \ {port} |-> c.Labels[p]]]

IsHidden(c, port) == \E i \in 1..Len(c.Hidden) : c.Hidden[i] = port

\* The first index of port in the list h, 0 if there is none.
firstIndex(h, port) ==
    IF \E i \in 1..Len(h) : h[i] = port
    THEN CHOOSE i \in 1..Len(h) : h[i] = port /\ \A j \in 1..(i - 1) : h[j] # port
    ELSE 0

\* The first occurrence of the port is removed; a port that does not occur is
\* appended.
ToggleHidden(c, port) ==
    LET i == firstIndex(c.Hidden, port)
    IN IF i > 0
       THEN [c EXCEPT !.Hidden = SubSeq(@, 1, i - 1) \o SubSeq(@, i + 1, Len(@))]
       ELSE [c EXCEPT !.Hidden = Append(@, port)]

InPortRange(c, port) == port >= c.PortRange.Min /\ port <= c.PortRange.Max

-----------------------------------------------------------------------------
(* The reconciler passes *)

\* Mutant of mergeLabels: an entity without a stored label loses its label.
mergeLabelsClearsMissing(m) ==
    [m EXCEPT !.servers =
        [i \in 1..Len(m.servers) |->
            [m.servers[i] EXCEPT !.Label = LabelOf(m.config, m.servers[i].Port)]]]

\* mergeLabels: a stored label overwrites the scanned one.
mergeLabels(m) ==
    [m EXCEPT !.servers =
        [i \in 1..Len(m.servers) |->
            IF m.servers[i].Port \in DOMAIN m.config.Labels
            THEN [m.servers[i] EXCEPT !.Label = m.config.Labels[m.servers[i].Port]]
            ELSE m.servers[i]]]

\* Mutant of hiddenLoop: after a removal the next server is kept unexamined
\* (removal from the slice being ranged over).
RECURSIVE hiddenLoopSkipsNext(_, _)
hiddenLoopSkipsNext(srvs, c) ==
    IF srvs = <<>> THEN <<>>
    ELSE IF ~IsHidden(c, Head(srvs).Port)
        THEN <<Head(srvs)>> \o hiddenLoopSkipsNext(Tail(srvs), c)
        ELSE IF Tail(srvs) = <<>> THEN <<>>
        ELSE <<Head(Tail(srvs))>> \o hiddenLoopSkipsNext(Tail(Tail(srvs)), c)

\* The loop of filterHidden: append the servers that are not hidden.
RECURSIVE hiddenLoop(_, _)
hiddenLoop(srvs, c) ==
    IF srvs = <<>> THEN <<>>
    ELSE IF ~IsHidden(c, Head(srvs).Port)
        THEN <<Head(srvs)>> \o hiddenLoop(Tail(srvs), c)
        ELSE hiddenLoop(Tail(srvs), c)

\* Mutant of filterHidden: no server is removed.
filterHiddenKeepsAll(m) == m

filterHidden(m) == [m EXCEPT !.servers = hiddenLoop(m.servers, m.config)]

\* Mutant of matchesFilter: the filter text is compared as typed.
matchesFilterAsTyped(s, text) ==
    \/ Contains(ToLower(s.Process), text)
    \/ Contains(ToLower(s.Label), text)
    \/ Contains(Itoa(s.Port), text)

\* The condition of applyFilter's loop.
matchesFilter(s, text) ==
    LET lower == ToLower(text)
    IN \/ Contains(ToLower(s.Process), lower)
       \/ Contains(ToLower(s.Label), lower)
       \/ Contains(Itoa(s.Port), text)

RECURSIVE filterLoop(_, _)
filterLoop(srvs, text) ==
    IF srvs = <<>> THEN <<>>
    ELSE IF matchesFilter(Head(srvs), text)
        THEN <<Head(srvs)>> \o filterLoop(Tail(srvs), text)
        ELSE filterLoop(Tail(srvs), text)

\* Mutant of clampCursor: the cursor is not pulled back into a shorter list.
clampCursorNoPull(cur, n) == IF n = 0 THEN 0 ELSE cur

\* applyFilter, the cursor clamp.
clampCursor(cur, n) ==
    IF n = 0 THEN 0
    ELSE IF cur >= n THEN n - 1
    ELSE cur

applyFilter(m) ==
    LET visible == IF m.filterText = <<>> THEN m.servers
                   ELSE filterLoop(m.servers, m.filterText)
    IN [m EXCEPT !.filtered = visible,
                 !.cursor = clampCursor(m.cursor, Len(visible))]

-----------------------------------------------------------------------------
(* Messages and commands *)

WindowSizeMsg(w, h) == [type |-> "WindowSizeMsg", Width |-> w, Height |-> h]
scanResultMsg(srvs, e) == [type |-> "scanResultMsg", servers |-> srvs, err |-> e]
tickMsg == [type |-> "tickMsg"]
killResultMsg(pid, e) == [type |-> "killResultMsg", pid |-> pid, err |-> e]
labelSavedMsg(e) == [type |-> "labelSavedMsg", err |-> e]
\* A message of a type Update has no case for.
otherMsg == [type |-> "other"]

\* tea.KeyMsg
KeyMsg(t, runes) == [type |-> "KeyMsg", Type |-> t, Runes |-> runes]
Special(t) == KeyMsg(t, <<>>)
Rune(r) == KeyMsg("runes", <<r>>)

KeyEsc == Special("esc")
KeyEnter == Special("enter")
KeyBackspace == Special("backspace")

\* tea.KeyMsg.String(): the runes of a rune key, the name of any other key.
KeyString(msg) ==
    IF msg.Type = "runes" THEN msg.Runes[1] ELSE msg.Type

\* The bindings of keyMap.
keysUp == {"up", "k"}
keysDown == {"down", "j"}
keysOpen == {"o", "enter"}
keysKill == {"x"}
keysLabel == {"l"}
keysRefresh == {"r"}
keysFilter == {"/"}
keysHelp == {"?"}
keysQuit == {"q", "ctrl+c"}
keysConfirm == {"y"}
keysCancel == {"n", "esc"}

\* key.Matches
Matches(msg, binding) == KeyString(msg) \in binding

\* The commands Update returns; tea.Batch is the sequence of its commands and
\* a nil command the empty sequence.
doScan == [type |-> "scan"]
doTick(interval) == [type |-> "tick", interval |-> interval]
doKill(pid) == [type |-> "kill", pid |-> pid]
doOpen(port) == [type |-> "open", port |-> port]
doSaveConfig(path, cfg) == [type |-> "save", path |-> path, cfg |-> cfg]
Quit == [type |-> "quit"]
\* The cursor-blink command the text input returns after an edit.
Blink == [type |-> "blink"]

\* How many commands of type t a returned command holds.
CountCmd(cmd, t) == Cardinality({i \in 1..Len(cmd) : cmd[i].type = t})

\* What a handler returns: (tea.Model, tea.Cmd).
Ret(m, cmd) == [m |-> m, cmd |-> cmd]

-----------------------------------------------------------------------------
(* textinput.Model: its value and focus; the cursor stays at the end *)

\* SetValue truncates to CharLimit.
SetValue(ti, s) ==
    [ti EXCEPT !.value = IF Len(s) > CharLimit THEN SubSeq(s, 1, CharLimit) ELSE s]

Focus(ti) == [ti EXCEPT !.focus = TRUE]
Blur(ti) == [ti EXCEPT !.focus = FALSE]

\* textinput.Update on a key message: the new input.
inputUpdate(ti, msg) ==
    IF ~ti.focus THEN ti
    ELSE IF msg.Type = "backspace" /\ Len(ti.value) > 0
        THEN [ti EXCEPT !.value = SubSeq(ti.value, 1, Len(ti.value) - 1)]
    ELSE IF msg.Type = "runes" /\ Len(ti.value) < CharLimit
        THEN [ti EXCEPT !.value = ti.value \o msg.Runes]
    ELSE ti

-----------------------------------------------------------------------------
(* Update: key messages *)

\* case key.Matches(msg, keys.Down)
cursorDown(m) ==
    IF Len(m.filtered) > 0 /\ m.cursor < Len(m.filtered) - 1
    THEN m.cursor + 1 ELSE m.cursor

\* case key.Matches(msg, keys.Up)
cursorUp(m) == IF m.cursor > 0 THEN m.cursor - 1 ELSE m.cursor

\* Mutant of killKey: the kill key opens the confirmation on an empty list too.
killKeyNoGuard(m) == Ret([m EXCEPT !.mode = modeConfirmKill], <<>>)

\* case key.Matches(msg, keys.Kill)
killKey(m) ==
    IF Len(m.filtered) = 0 THEN Ret(m, <<>>)
    ELSE Ret([m EXCEPT !.mode = modeConfirmKill], <<>>)

\* case key.Matches(msg, keys.Label): the input starts from the stored label.
labelKey(m) ==
    IF Len(m.filtered) = 0 THEN Ret(m, <<>>)
    ELSE LET s == m.filtered[m.cursor + 1]
             existingLabel == LabelOf(m.config, s.Port)
         IN Ret([m EXCEPT !.mode = modeLabel,
                          !.labelInput = Focus(SetValue(m.labelInput, existingLabel))],
                <<>>)

\* case key.Matches(msg, keys.Open)
openKey(m) ==
    IF Len(m.filtered) = 0 THEN Ret(m, <<>>)
    ELSE Ret(m, <<doOpen(m.filtered[m.cursor + 1].Port)>>)

handleNormalKey(m, msg) ==
    IF Matches(msg, keysQuit) THEN Ret(m, <<Quit>>)
    ELSE IF Matches(msg, keysDown) THEN Ret([m EXCEPT !.cursor = cursorDown(m)], <<>>)
    ELSE IF Matches(msg, keysUp) THEN Ret([m EXCEPT !.cursor = cursorUp(m)], <<>>)
    ELSE IF Matches(msg, keysFilter) THEN Ret([m EXCEPT !.mode = modeFilter], <<>>)
    ELSE IF Matches(msg, keysKill) THEN killKey(m)
    ELSE IF Matches(msg, keysLabel) THEN labelKey(m)
    ELSE IF Matches(msg, keysHelp) THEN Ret([m EXCEPT !.mode = modeHelp], <<>>)
    ELSE IF Matches(msg, keysOpen) THEN openKey(m)
    ELSE IF Matches(msg, keysRefresh) THEN Ret(m, <<doScan>>)
    ELSE Ret(m, <<>>)

handleFilterKey(m, msg) ==
    IF msg.Type \in {"esc", "enter"} THEN Ret([m EXCEPT !.mode = modeNormal], <<>>)
    ELSE IF msg.Type = "backspace" THEN
        IF Len(m.filterText) > 0
        THEN Ret(applyFilter([m EXCEPT !.filterText =
                                SubSeq(m.filterText, 1, Len(m.filterText) - 1)]), <<>>)
        ELSE Ret(m, <<>>)
    ELSE IF msg.Type = "runes"
        THEN Ret(applyFilter([m EXCEPT !.filterText = m.filterText \o msg.Runes]), <<>>)
    ELSE Ret(m, <<>>)

\* case key.Matches(msg, keys.Confirm): the entity under the cursor now.
confirmKill(m) ==
    IF Len(m.filtered) > 0
    THEN Ret([m EXCEPT !.mode = modeNormal], <<doKill(m.filtered[m.cursor + 1].PID)>>)
    ELSE Ret([m EXCEPT !.mode = modeNormal], <<>>)

\* Mutant of handleConfirmKillKey: Escape is not a cancel key.
handleConfirmKillKeyNoEsc(m, msg) ==
    IF Matches(msg, keysConfirm) THEN confirmKill(m)
    ELSE IF Matches(msg, {"n"}) THEN Ret([m EXCEPT !.mode = modeNormal], <<>>)
    ELSE Ret(m, <<>>)

handleConfirmKillKey(m, msg) ==
    IF Matches(msg, keysConfirm) THEN confirmKill(m)
    ELSE IF Matches(msg, keysCancel) THEN Ret([m EXCEPT !.mode = modeNormal], <<>>)
    ELSE Ret(m, <<>>)

\* m.filtered[m.cursor].Label = label
setVisibleLabel(flt, cur, label) ==
    [flt EXCEPT ![cur + 1].Label = label]

\* The loop over m.servers: every known entity on the port.
setKnownLabel(srvs, port, label) ==
    [i \in 1..Len(srvs) |->
        IF srvs[i].Port = port THEN [srvs[i] EXCEPT !.Label = label] ELSE srvs[i]]

\* The label store after Enter.
storeLabel(c, port, label) ==
    IF label = <<>> THEN RemoveLabel(c, port) ELSE SetLabel(c, port, label)

\* Mutant of labelEnter: the store is updated and never saved.
labelEnterNoSave(m) ==
    IF Len(m.filtered) > 0 THEN
        LET s == m.filtered[m.cursor + 1]
            label == m.labelInput.value
            cfg == storeLabel(m.config, s.Port, label)
        IN Ret([m EXCEPT !.config = cfg,
                         !.filtered = setVisibleLabel(m.filtered, m.cursor, label),
                         !.servers = setKnownLabel(m.servers, s.Port, label),
                         !.mode = modeNormal,
                         !.labelInput = Blur(m.labelInput)],
               <<>>)
    ELSE Ret([m EXCEPT !.mode = modeNormal, !.labelInput = Blur(m.labelInput)], <<>>)

\* case tea.KeyEnter of handleLabelKey
labelEnter(m) ==
    IF Len(m.filtered) > 0 THEN
        LET s == m.filtered[m.cursor + 1]
            label == m.labelInput.value
            cfg == storeLabel(m.config, s.Port, label)
        IN Ret([m EXCEPT !.config = cfg,
                         !.filtered = setVisibleLabel(m.filtered, m.cursor, label),
                         !.servers = setKnownLabel(m.servers, s.Port, label),
                         !.mode = modeNormal,
                         !.labelInput = Blur(m.labelInput)],
               <<doSaveConfig(configPath, cfg)>>)
    ELSE Ret([m EXCEPT !.mode = modeNormal, !.labelInput = Blur(m.labelInput)], <<>>)

handleLabelKey(m, msg) ==
    IF msg.Type = "esc"
        THEN Ret([m EXCEPT !.mode = modeNormal, !.labelInput = Blur(m.labelInput)], <<>>)
    ELSE IF msg.Type = "enter" THEN labelEnter(m)
    ELSE LET ti == inputUpdate(m.labelInput, msg)
         IN Ret([m EXCEPT !.labelInput = ti],
                IF ti # m.labelInput THEN <<Blink>> ELSE <<>>)

\* Mutant of handleHelpKey: only Escape closes the help; "/" opens the filter.
handleHelpKeyEscOnly(m, msg) ==
    IF msg.Type = "esc" THEN Ret([m EXCEPT !.mode = modeNormal], <<>>)
    ELSE IF Matches(msg, keysFilter) THEN Ret([m EXCEPT !.mode = modeFilter], <<>>)
    ELSE Ret(m, <<>>)

handleHelpKey(m, msg) == Ret([m EXCEPT !.mode = modeNormal], <<>>)

\* Mutant of handleKey: ctrl+c quits in every mode.
handleKeyQuitsAnywhere(m, msg) ==
    IF msg.Type = "ctrl+c" THEN Ret(m, <<Quit>>)
    ELSE CASE m.mode = modeNormal -> handleNormalKey(m, msg)
           [] m.mode = modeFilter -> handleFilterKey(m, msg)
           [] m.mode = modeConfirmKill -> handleConfirmKillKey(m, msg)
           [] m.mode = modeLabel -> handleLabelKey(m, msg)
           [] m.mode = modeHelp -> handleHelpKey(m, msg)
           [] OTHER -> Ret(m, <<>>)

handleKey(m, msg) ==
    CASE m.mode = modeNormal -> handleNormalKey(m, msg)
      [] m.mode = modeFilter -> handleFilterKey(m, msg)
      [] m.mode = modeConfirmKill -> handleConfirmKillKey(m, msg)
      [] m.mode = modeLabel -> handleLabelKey(m, msg)
      [] m.mode = modeHelp -> handleHelpKey(m, msg)
      [] OTHER -> Ret(m, <<>>)

-----------------------------------------------------------------------------
(* Update *)

\* Mutant of onScanResult: a scan error drops back to Normal mode.
onScanResultLeavesMode(m, msg) ==
    IF msg.err # NoErr THEN Ret([m EXCEPT !.err = msg.err, !.mode = modeNormal], <<>>)
    ELSE LET m1 == [m EXCEPT !.err = NoErr, !.servers = msg.servers]
             m2 == filterHidden(mergeLabels(m1))
             m3 == [m2 EXCEPT !.lastRefresh = Now]
         IN Ret(applyFilter(m3), <<>>)

\* Mutant of onScanResult: a scan error blanks the list.
onScanResultBlanksOnError(m, msg) ==
    LET m1 == [m EXCEPT !.err = msg.err, !.servers = msg.servers]
        m2 == filterHidden(mergeLabels(m1))
        m3 == [m2 EXCEPT !.lastRefresh = Now]
    IN Ret(applyFilter(m3), <<>>)

\* Mutant of onScanResult: a scan error moves the cursor to the first row.
onScanResultResetsCursor(m, msg) ==
    IF msg.err # NoErr THEN Ret([m EXCEPT !.err = msg.err, !.cursor = 0], <<>>)
    ELSE LET m1 == [m EXCEPT !.err = NoErr, !.servers = msg.servers]
             m2 == filterHidden(mergeLabels(m1))
             m3 == [m2 EXCEPT !.lastRefresh = Now]
         IN Ret(applyFilter(m3), <<>>)

\* case scanResultMsg
onScanResult(m, msg) ==
    IF msg.err # NoErr THEN Ret([m EXCEPT !.err = msg.err], <<>>)
    ELSE LET m1 == [m EXCEPT !.err = NoErr, !.servers = msg.servers]
             m2 == filterHidden(mergeLabels(m1))
             m3 == [m2 EXCEPT !.lastRefresh = Now]
         IN Ret(applyFilter(m3), <<>>)

\* Mutant of onTick: the tick scans and is not rescheduled.
onTickNoReschedule(m) == Ret(m, <<doScan>>)

\* Mutant of onTick: no retry while an error is recorded.
onTickStopsOnError(m) ==
    IF m.err # NoErr THEN Ret(m, <<>>)
    ELSE Ret(m, <<doScan, doTick(m.config.RefreshInterval)>>)

\* Mutant of onTick: the tick is rescheduled twice.
onTickReschedulesTwice(m) ==
    Ret(m, <<doScan, doTick(m.config.RefreshInterval), doTick(m.config.RefreshInterval)>>)

\* case tickMsg
onTick(m) == Ret(m, <<doScan, doTick(m.config.RefreshInterval)>>)

\* Mutant of onKillResult: a failed kill records the error and does not rescan.
onKillResultErrSkips(m, msg) ==
    IF msg.err # NoErr THEN Ret([m EXCEPT !.err = msg.err], <<>>) ELSE Ret(m, <<doScan>>)

\* case killResultMsg
onKillResult(m, msg) == Ret(m, <<doScan>>)

\* Mutant of onLabelSaved: a successful save clears the last error.
onLabelSavedClears(m, msg) == Ret([m EXCEPT !.err = msg.err], <<>>)

\* case labelSavedMsg
onLabelSaved(m, msg) ==
    IF msg.err # NoErr THEN Ret([m EXCEPT !.err = msg.err], <<>>) ELSE Ret(m, <<>>)

Update(m, msg) ==
    CASE msg.type = "WindowSizeMsg" ->
            Ret([m EXCEPT !.width = msg.Width, !.height = msg.Height], <<>>)
      [] msg.type = "scanResultMsg" -> onScanResult(m, msg)
      [] msg.type = "tickMsg" -> onTick(m)
      [] msg.type = "killResultMsg" -> onKillResult(m, msg)
      [] msg.type = "labelSavedMsg" -> onLabelSaved(m, msg)
      [] msg.type = "KeyMsg" -> handleKey(m, msg)
      [] OTHER -> Ret(m, <<>>)

\* Model.Init: the commands the program starts with.
InitCmd(m) == <<doScan, doTick(m.config.RefreshInterval)>>

-----------------------------------------------------------------------------
(* The messages the event loop delivers *)

Keys ==
    {Special(t) : t \in {"up", "down", "enter", "esc", "backspace", "ctrl+c"}}
        \cup {Rune(r) : r \in {"o", "x", "l", "r", "/", "?", "q", "y", "n"}}

WindowSizes == {WindowSizeMsg(80, 24)}

\* Scan returns a list and no error, or no list and an error.
ScanMsgs == {scanResultMsg(r, NoErr) : r \in ScanResults} \cup {scanResultMsg(<<>>, ScanErr)}

\* Update reads no field of a kill result.
KillMsgs == {killResultMsg(1, e) : e \in {NoErr, KillErr}}

SavedMsgs == {labelSavedMsg(e) : e \in {NoErr, SaveErr}}

BackgroundMsgs == WindowSizes \cup ScanMsgs \cup {tickMsg} \cup KillMsgs \cup SavedMsgs

\* The typed text stays within the bounds of the model.
TypedOK(msg) ==
    /\ (mode = modeFilter /\ msg.Type = "runes") =>
            (msg.Runes[1] \in TypedRunes /\ Len(filterText) < MaxTextLen)
    /\ (mode = modeLabel /\ msg.Type = "runes") =>
            (msg.Runes[1] \in TypedRunes /\ Len(labelInput.value) < MaxTextLen)

\* The keys the event loop can deliver in the current state.
KeysNow == {k \in Keys : TypedOK(k)}

-----------------------------------------------------------------------------
(* The state machine: New, then one Update per message *)

Init ==
    /\ servers = <<>>
    /\ filtered = <<>>
    /\ cursor = 0
    /\ mode = modeNormal
    /\ config \in InitConfigs
    /\ width = 0
    /\ height = 0
    /\ lastRefresh = ZeroTime
    /\ filterText = <<>>
    /\ labelInput = [value |-> <<>>, focus |-> FALSE]
    /\ err = NoErr
    /\ selected = <<>>
    /\ health = NoCheck
    /\ pending = NoPending
    /\ parse = NoParse

\* The program's model becomes the Model that Update returned.
Assign(m) ==
    /\ servers' = m.servers
    /\ filtered' = m.filtered
    /\ cursor' = m.cursor
    /\ mode' = m.mode
    /\ config' = m.config
    /\ width' = m.width
    /\ height' = m.height
    /\ lastRefresh' = m.lastRefresh
    /\ filterText' = m.filterText
    /\ labelInput' = m.labelInput
    /\ err' = m.err
    /\ UNCHANGED <<health, parse>>

\* The same, where the commands Update returned are not followed.
Becomes(m) ==
    /\ Assign(m)
    /\ UNCHANGED pending

\* The fields a cancelled mode must leave as they were.
Snapshot(m) ==
    [labels |-> m.config.Labels, hidden |-> m.config.Hidden, servers |-> m.servers,
     filtered |-> m.filtered, filterText |-> m.filterText, cursor |-> m.cursor]

\* selected: the port and PID of the entity under the cursor when the kill or
\* label key was pressed, until the mode is left.
Selects(r) ==
    selected' = IF mode = modeNormal /\ r.m.mode \in {modeLabel, modeConfirmKill}
                THEN <<[Port |-> filtered[cursor + 1].Port,
                        PID |-> filtered[cursor + 1].PID]>>
                ELSE IF r.m.mode = mode THEN selected ELSE <<>>

\* A key event.
Key ==
    \E msg \in KeysNow :
        LET r == Update(M, msg)
        IN /\ Becomes(r.m)
           /\ Selects(r)

\* The history variable after a message that is no key event.
NoKey == UNCHANGED selected

WindowSize ==
    \E msg \in WindowSizes :
        /\ Becomes(Update(M, msg).m)
        /\ NoKey

ScanResult ==
    \E msg \in ScanMsgs :
        /\ Becomes(Update(M, msg).m)
        /\ NoKey

Tick ==
    /\ Becomes(Update(M, tickMsg).m)
    /\ NoKey

KillResult ==
    \E msg \in KillMsgs :
        /\ Becomes(Update(M, msg).m)
        /\ NoKey

LabelSaved ==
    \E msg \in SavedMsgs :
        /\ Becomes(Update(M, msg).m)
        /\ NoKey

Other ==
    /\ Becomes(Update(M, otherMsg).m)
    /\ NoKey

Next ==
    \/ Key
    \/ WindowSize
    \/ ScanResult
    \/ Tick
    \/ KillResult
    \/ LabelSaved
    \/ Other

Spec == Init /\ [][Next]_vars

-----------------------------------------------------------------------------
(* The reconciler passes on their own: a model holding any server list a     *)
(* Scanner can return (scanner.MockScanner returns the labels it was given), *)
(* any of three configurations and any filter text, and one pass per step    *)

\* A listener on each of three ports, without and with a label of its own.
PassDiscovered ==
    << Server(8080, 1, <<"q">>), [Server(8080, 2, <<"q">>) EXCEPT !.Label = <<"Q">>],
       Server(22, 3, <<"Q">>), [Server(22, 4, <<"Q">>) EXCEPT !.Label = <<"Q">>],
       Server(3000, 0, <<>>), [Server(3000, 5, <<>>) EXCEPT !.Label = <<"Q">>] >>

PassServers == {r \in SubLists(PassDiscovered) : Len(r) <= MaxScanLen}

\* A configuration with an upper-case label and another hidden port.
Relabelled ==
    [Default EXCEPT !.Labels = (3000 :> <<"Q">>), !.Hidden = <<22>>]

PassConfigs == {Default, Loaded, Relabelled}

\* Filter texts: lower case, upper case and a digit.
RECURSIVE TextsUpTo(_, _)
TextsUpTo(chars, n) ==
    IF n = 0 THEN {<<>>}
    ELSE LET shorter == TextsUpTo(chars, n - 1)
         IN shorter \cup {Append(t, c) : t \in shorter, c \in chars}

PassTexts == TextsUpTo({"q", "Q", "8"}, MaxTextLen)

PassInit ==
    /\ servers \in PassServers
    /\ filtered = <<>>
    /\ cursor \in 0..(MaxScanLen - 1)
    /\ mode = modeNormal
    /\ config \in PassConfigs
    /\ width = 0
    /\ height = 0
    /\ lastRefresh = ZeroTime
    /\ filterText \in PassTexts
    /\ labelInput = [value |-> <<>>, focus |-> FALSE]
    /\ err = NoErr
    /\ selected = <<>>
    /\ health = NoCheck
    /\ pending = NoPending
    /\ parse = NoParse

MergeLabelsPass ==
    /\ Becomes(mergeLabels(M))
    /\ NoKey

FilterHiddenPass ==
    /\ Becomes(filterHidden(M))
    /\ NoKey

ApplyFilterPass ==
    /\ Becomes(applyFilter(M))
    /\ NoKey

PassNext ==
    \/ MergeLabelsPass
    \/ FilterHiddenPass
    \/ ApplyFilterPass

SpecPasses == PassInit /\ [][PassNext]_vars

-----------------------------------------------------------------------------
(* The scanners: darwinScanner.Scan (lsof, then ps per socket) and          *)
(* linuxScanner.Scan (/proc/net/tcp, then ss and /proc/<pid>), feeding the   *)
(* scan completion of Update                                                 *)

\* Mutant of portRangeKeeps: a zero bound disables that bound only.
portRangeKeepsPerBound(pr, port) ==
    /\ ~(pr.Min # 0 /\ port < pr.Min)
    /\ ~(pr.Max # 0 /\ port > pr.Max)

\* The port-range filter of Scan: FALSE where the loop continues.
portRangeKeeps(pr, port) ==
    IF pr.Min # 0 \/ pr.Max # 0
    THEN ~(port < pr.Min \/ port > pr.Max)
    ELSE TRUE

\* What ps prints for a process that exists: comm and args.
psComm == <<"q", "q">>
psArgs == <<"q">>

\* What /proc/<pid>/comm and /proc/<pid>/cmdline hold for a process.
procComm == <<"q">>
procCmdline == <<"q", "q">>

\* The lookups of one Scan call, lk: the PIDs ps (darwin) or ss (linux) finds
\* (found), those whose ps line has arguments or whose cmdline file is readable
\* (args), and those whose comm file is readable (comm, linux only).

\* The ps step of darwinScanner.Scan for one socket.
darwinResolve(s, lk) ==
    IF s.PID \in lk.found
    THEN [s EXCEPT !.Command = IF s.PID \in lk.args THEN psArgs ELSE s.Command,
                   !.Process = IF Len(psComm) > Len(s.Process) THEN psComm ELSE s.Process]
    ELSE s

\* Mutant of darwinLoop: a socket whose process ps does not find is dropped.
RECURSIVE darwinLoopDropsUnresolved(_, _, _)
darwinLoopDropsUnresolved(pr, sockets, lk) ==
    IF sockets = <<>> THEN <<>>
    ELSE LET s == darwinResolve(Head(sockets), lk)
             rest == darwinLoopDropsUnresolved(pr, Tail(sockets), lk)
         IN IF portRangeKeeps(pr, s.Port) /\ s.PID \in lk.found
            THEN <<s>> \o rest ELSE rest

\* The loop of darwinScanner.Scan.
RECURSIVE darwinLoop(_, _, _)
darwinLoop(pr, sockets, lk) ==
    IF sockets = <<>> THEN <<>>
    ELSE LET s == darwinResolve(Head(sockets), lk)
             rest == darwinLoop(pr, Tail(sockets), lk)
         IN IF portRangeKeeps(pr, s.Port) THEN <<s>> \o rest ELSE rest

\* Mutant of darwinScan: the sockets lsof printed before it failed are kept.
darwinScanKeepsPartial(pr, listing, lk) ==
    [servers |-> darwinLoop(pr, listing.sockets, lk),
     err |-> listing.err,
     lookups |-> [i \in 1..Len(listing.sockets) |-> listing.sockets[i].PID]]

\* darwinScanner.Scan.  listing: the error of lsof and the sockets parsed from
\* its output.  lookups: the PIDs ps was run for.
darwinScan(pr, listing, lk) ==
    IF listing.err # NoErr
    THEN [servers |-> <<>>, err |-> listing.err, lookups |-> <<>>]
    ELSE [servers |-> darwinLoop(pr, listing.sockets, lk),
          err |-> NoErr,
          lookups |-> [i \in 1..Len(listing.sockets) |-> listing.sockets[i].PID]]

\* parseProcNetTCP gives the port only.
procNetSocket(s) == Server(s.Port, 0, <<>>)

\* readProcFile(pid, "comm") and readProcCmdline(pid): "" when the read fails.
readProcFile(pid, lk) == IF pid \in lk.comm THEN procComm ELSE <<>>
readProcCmdline(pid, lk) == IF pid \in lk.args THEN procCmdline ELSE <<>>

\* The loop of linuxScanner.Scan; portPIDs: the port-to-PID map read from ss.
RECURSIVE linuxLoop(_, _, _, _)
linuxLoop(pr, sockets, portPIDs, lk) ==
    IF sockets = <<>> THEN <<>>
    ELSE LET s == Head(sockets)
             rest == linuxLoop(pr, Tail(sockets), portPIDs, lk)
             r == IF s.Port \in DOMAIN portPIDs
                  THEN [s EXCEPT !.PID = portPIDs[s.Port],
                                 !.Process = readProcFile(portPIDs[s.Port], lk),
                                 !.Command = readProcCmdline(portPIDs[s.Port], lk)]
                  ELSE s
         IN IF portRangeKeeps(pr, s.Port) THEN <<r>> \o rest ELSE rest

\* resolvePortPIDs: the port-to-PID map of ss for the sockets it resolves; the
\* empty map when ss fails.
resolvePortPIDs(sockets, lk) ==
    [p \in {sockets[i].Port : i \in {j \in 1..Len(sockets) : sockets[j].PID \in lk.found}} |->
        sockets[CHOOSE i \in 1..Len(sockets) : sockets[i].Port = p].PID]

\* linuxScanner.Scan.  lookups: "ss" when resolvePortPIDs was called.
linuxScan(pr, listing, lk) ==
    IF listing.err # NoErr
    THEN [servers |-> <<>>, err |-> listing.err, lookups |-> <<>>]
    ELSE IF listing.sockets = <<>>
    THEN [servers |-> <<>>, err |-> NoErr, lookups |-> <<>>]
    ELSE [servers |-> linuxLoop(pr, [i \in 1..Len(listing.sockets) |->
                                        procNetSocket(listing.sockets[i])],
                                resolvePortPIDs(listing.sockets, lk), lk),
          err |-> NoErr,
          lookups |-> <<"ss">>]

\* The listening sockets of the machine, around the default port range.
ScanDiscovered ==
    << Server(1023, 1, <<"q">>), Server(1024, 2, <<"q">>),
       Server(65535, 3, <<"q">>), Server(65536, 4, <<"q">>) >>

\* The listing source succeeds, or fails after printing some of its output.
Listings ==
    {[err |-> e, sockets |-> r] :
        e \in {NoErr, ScanErr},
        r \in {l \in SubLists(ScanDiscovered) : Len(l) <= MaxScanLen}}

\* Every outcome of the lookups for the processes of a listing.
Lookups(sockets) ==
    LET pids == {sockets[i].PID : i \in 1..Len(sockets)}
    IN {lk \in [found : SUBSET pids, comm : SUBSET pids, args : SUBSET pids] :
            lk.comm \subseteq lk.found /\ lk.args \subseteq lk.found}

\* Every lookup fails, ss as a whole included.
NoLookups == [found |-> {}, comm |-> {}, args |-> {}]

\* The lookups a darwin scan of the listing can make: none after a failed
\* listing, and no comm file is read.
DarwinLookups(listing) ==
    IF listing.err # NoErr THEN {NoLookups}
    ELSE {lk \in Lookups(listing.sockets) : lk.comm = {}}

\* The lookups a linux scan of the listing can make.
LinuxLookups(listing) ==
    IF listing.err # NoErr THEN {NoLookups} ELSE Lookups(listing.sockets)

PortRange(min, max) == [Min |-> min, Max |-> max]

\* The default range, no range, and a range with one bound only.
ScanRanges ==
    {PortRange(1024, 65535), PortRange(0, 0), PortRange(0, 65535), PortRange(1024, 0)}

ScanInit ==
    /\ servers = <<>>
    /\ filtered = <<>>
    /\ cursor = 0
    /\ mode = modeNormal
    /\ config \in {[Default EXCEPT !.PortRange = pr] : pr \in ScanRanges}
    /\ width = 0
    /\ height = 0
    /\ lastRefresh = ZeroTime
    /\ filterText = <<>>
    /\ labelInput = [value |-> <<>>, focus |-> FALSE]
    /\ err = NoErr
    /\ selected = <<>>
    /\ health = NoCheck
    /\ pending = NoPending
    /\ parse = NoParse

\* doScan with the darwin scanner, and the scan completion it delivers.
DarwinScan ==
    \E listing \in Listings :
      \E lk \in DarwinLookups(listing) :
        LET out == darwinScan(config.PortRange, listing, lk)
        IN /\ Becomes(Update(M, scanResultMsg(out.servers, out.err)).m)
           /\ NoKey

\* doScan with the linux scanner, and the scan completion it delivers.
LinuxScan ==
    \E listing \in Listings :
      \E lk \in LinuxLookups(listing) :
        LET out == linuxScan(config.PortRange, listing, lk)
        IN /\ Becomes(Update(M, scanResultMsg(out.servers, out.err)).m)
           /\ NoKey

ScanNext ==
    \/ DarwinScan
    \/ LinuxScan

SpecScan == ScanInit /\ [][ScanNext]_vars

-----------------------------------------------------------------------------
(* scanner.CheckHealth: the caller copies its input, starts one probe task    *)
(* per element, and waits for all of them.  health holds the call: the        *)
(* caller's position pc, its input slice, the result slice, the loop index i, *)
(* the WaitGroup counter wg, each task's position and dial outcome, and acc,  *)
(* the elements of result the tasks have read or written                      *)

\* The outcomes of net.DialTimeout: a connection, or an error (a refusal or
\* the timeout).
DialOutcomes == {"established", "refused", "timeout"}

\* An entity handed to CheckHealth; a caller may hand back a list that was
\* probed before, so the flag can be set.
Probed(port, healthy) ==
    [Server(port, 1, <<"q">>) EXCEPT !.Healthy = healthy]

HealthDiscovered ==
    << Probed(8080, FALSE), Probed(8080, TRUE),
       Probed(3000, FALSE), Probed(3000, TRUE) >>

HealthInputs == {r \in SubLists(HealthDiscovered) : Len(r) <= MaxScanLen}

\* result := make([]Server, len(servers)); copy(result, servers)
copyServers(s) == [k \in 1..Len(s) |-> s[k]]

startCheck(h) ==
    [h EXCEPT !.result = copyServers(h.input),
              !.task = [k \in 1..Len(h.input) |-> [pc |-> "none", conn |-> "none"]],
              !.i = 0,
              !.pc = "spawn"]

\* One iteration of the loop: wg.Add(1); go func(idx int) {...}(i)
spawn(h) ==
    [h EXCEPT !.wg = h.wg + 1,
              !.task[h.i + 1].pc = "dial",
              !.i = h.i + 1]

\* Task idx reads or writes element slot of result.
Access(idx, slot, op) == [task |-> idx, slot |-> slot, op |-> op]

\* conn, err := net.DialTimeout("tcp", 127.0.0.1:result[idx].Port, timeout)
dial(h, idx, outcome) ==
    [h EXCEPT !.task[idx].conn = outcome,
              !.task[idx].pc = IF outcome = "established" THEN "write" ELSE "exit",
              !.acc = @ \cup {Access(idx, idx, "read")}]

\* The same, when result is the caller's slice itself.
setHealthyShared(h, idx) ==
    [h EXCEPT !.result[idx].Healthy = TRUE,
              !.input[idx].Healthy = TRUE,
              !.task[idx].pc = "exit",
              !.acc = @ \cup {Access(idx, idx, "write")}]

\* The same, when the task uses the loop variable i of the caller instead of
\* its own parameter idx.
setHealthyLoopVar(h, idx) ==
    [h EXCEPT !.result[h.i].Healthy = TRUE,
              !.task[idx].pc = "exit",
              !.acc = @ \cup {Access(idx, h.i, "write")}]

\* if err == nil { result[idx].Healthy = true; conn.Close() }
setHealthy(h, idx) ==
    [h EXCEPT !.result[idx].Healthy = TRUE,
              !.task[idx].pc = "exit",
              !.acc = @ \cup {Access(idx, idx, "write")}]

\* defer wg.Done()
done(h, idx) ==
    [h EXCEPT !.wg = h.wg - 1,
              !.task[idx].pc = "done"]

\* A return that does not wait for the tasks.
wgWaitNoBarrier(h) == TRUE

\* wg.Wait() returns when the counter is zero.
wgWait(h) == h.wg = 0

HealthInit ==
    /\ servers = <<>>
    /\ filtered = <<>>
    /\ cursor = 0
    /\ mode = modeNormal
    /\ config = Default
    /\ width = 0
    /\ height = 0
    /\ lastRefresh = ZeroTime
    /\ filterText = <<>>
    /\ labelInput = [value |-> <<>>, focus |-> FALSE]
    /\ err = NoErr
    /\ selected = <<>>
    /\ \E inp \in HealthInputs :
          health = [NoCheck EXCEPT !.pc = "call", !.input = inp]
    /\ pending = NoPending
    /\ parse = NoParse

StartCheck ==
    /\ health.pc = "call"
    /\ health' = startCheck(health)
    /\ UNCHANGED <<modelVars, pending, parse>>

Spawn ==
    /\ health.pc = "spawn"
    /\ health.i < Len(health.result)
    /\ health' = spawn(health)
    /\ UNCHANGED <<modelVars, pending, parse>>

LoopExit ==
    /\ health.pc = "spawn"
    /\ health.i = Len(health.result)
    /\ health' = [health EXCEPT !.pc = "wait"]
    /\ UNCHANGED <<modelVars, pending, parse>>

Dial ==
    \E idx \in DOMAIN health.task, outcome \in DialOutcomes :
        /\ health.task[idx].pc = "dial"
        /\ health' = dial(health, idx, outcome)
        /\ UNCHANGED <<modelVars, pending, parse>>

SetHealthy ==
    \E idx \in DOMAIN health.task :
        /\ health.task[idx].pc = "write"
        /\ health' = setHealthy(health, idx)
        /\ UNCHANGED <<modelVars, pending, parse>>

Done ==
    \E idx \in DOMAIN health.task :
        /\ health.task[idx].pc = "exit"
        /\ health' = done(health, idx)
        /\ UNCHANGED <<modelVars, pending, parse>>

Return ==
    /\ health.pc = "wait"
    /\ wgWait(health)
    /\ health' = [health EXCEPT !.pc = "returned"]
    /\ UNCHANGED <<modelVars, pending, parse>>

HealthNext ==
    \/ StartCheck
    \/ Spawn
    \/ LoopExit
    \/ Dial
    \/ SetHealthy
    \/ Done
    \/ Return

SpecHealth == HealthInit /\ [][HealthNext]_vars

\* The Go scheduler runs every runnable goroutine, and DialTimeout returns
\* within its timeout: no step of the call stays enabled for ever.
SpecHealthLive == SpecHealth /\ WF_vars(HealthNext)

-----------------------------------------------------------------------------
(* The event loop with its commands: the runtime runs every command Update    *)
(* returns on a goroutine of its own and delivers the message it returns.     *)
(* pending counts the scans and ticks in flight and tells whether a kill or   *)
(* a save is (1 stands for one or more); epoch changes whenever a scan is     *)
(* started                                                                    *)

Min(a, b) == IF a < b THEN a ELSE b

\* The runtime starts the commands of cmd.
launch(p, cmd) ==
    [p EXCEPT !.scan = Min(MaxPending, @ + CountCmd(cmd, "scan")),
              !.tick = Min(MaxPending, @ + CountCmd(cmd, "tick")),
              !.kill = Min(1, @ + CountCmd(cmd, "kill")),
              !.save = Min(1, @ + CountCmd(cmd, "save")),
              !.epoch = IF CountCmd(cmd, "scan") > 0 THEN 1 - @ ELSE @]

\* A command of kind f returns its message.
complete(p, f) ==
    LET more == IF f \in {"kill", "save"} THEN 1 ELSE MaxPending
    IN {[p EXCEPT ![f] = n] : n \in IF p[f] = more THEN {more - 1, more} ELSE {p[f] - 1}}

\* The runtime delivers msg, the message of a command of kind f, and starts
\* the commands Update returns.
Deliver(msg, f) ==
    LET r == Update(M, msg)
    IN /\ Assign(r.m)
       /\ NoKey
       /\ \E p \in complete(pending, f) : pending' = launch(p, r.cmd)

\* The keys of the label, kill and refresh interactions, and a typed rune.
LoopKeys ==
    {Special(t) : t \in {"enter", "esc"}} \cup {Rune(r) : r \in {"l", "r", "x", "y", "q"}}

\* A scan returns at most one socket, or fails.
LoopScanMsgs == {msg \in ScanMsgs : Len(msg.servers) <= 1}

\* tea.NewProgram(New(...)) runs the command of Init.
LoopInit ==
    /\ servers = <<>>
    /\ filtered = <<>>
    /\ cursor = 0
    /\ mode = modeNormal
    /\ config = Default
    /\ width = 0
    /\ height = 0
    /\ lastRefresh = ZeroTime
    /\ filterText = <<>>
    /\ labelInput = [value |-> <<>>, focus |-> FALSE]
    /\ err = NoErr
    /\ selected = <<>>
    /\ health = NoCheck
    /\ pending = launch(NoPending, InitCmd(M))
    /\ parse = NoParse

LoopKey ==
    \E msg \in LoopKeys \cap KeysNow :
        LET r == Update(M, msg)
        IN /\ Assign(r.m)
           /\ Selects(r)
           /\ pending' = launch(pending, r.cmd)

LoopScanDone ==
    /\ pending.scan > 0
    /\ \E msg \in LoopScanMsgs : Deliver(msg, "scan")

LoopTick ==
    /\ pending.tick > 0
    /\ Deliver(tickMsg, "tick")

LoopKillDone ==
    /\ pending.kill > 0
    /\ \E msg \in KillMsgs : Deliver(msg, "kill")

LoopSaveDone ==
    /\ pending.save > 0
    /\ \E msg \in SavedMsgs : Deliver(msg, "save")

LoopNext ==
    \/ LoopKey
    \/ LoopScanDone
    \/ LoopTick
    \/ LoopKillDone
    \/ LoopSaveDone

SpecLoop == LoopInit /\ [][LoopNext]_vars

\* tea.Tick delivers its message when the interval has passed.
SpecLoopLive == SpecLoop /\ WF_vars(LoopTick)

-----------------------------------------------------------------------------
(* The scans in flight, told apart: every scan the runtime starts gets the    *)
(* next start stamp; pending.flying holds the stamps of the scans that have   *)
(* not returned, pending.held the stamp of the scan whose result replaced     *)
(* the known set last (0 before the first)                                    *)

NoScans ==
    [scan |-> 0, tick |-> 0, kill |-> 0, save |-> 0, epoch |-> 0,
     next |-> 1, flying |-> {}, held |-> 0]

\* The runtime starts the commands of cmd, each doScan in a goroutine of its
\* own with context.Background(): no scan in flight is cancelled.
startScans(p, cmd) ==
    LET n == CountCmd(cmd, "scan")
        flying == p.flying \cup (p.next..(p.next + n - 1))
    IN [launch(p, cmd) EXCEPT !.scan = Cardinality(flying),
                              !.flying = flying,
                              !.next = @ + n]

\* At most MaxStarts scans are started.
CanStart(cmd) == pending.next + CountCmd(cmd, "scan") <= MaxStarts + 1

\* The keys of manual refresh and of the kill interaction.
OverlapKeys == {Rune(r) : r \in {"r", "x", "y"}}

OverlapInit ==
    /\ servers = <<>>
    /\ filtered = <<>>
    /\ cursor = 0
    /\ mode = modeNormal
    /\ config = Default
    /\ width = 0
    /\ height = 0
    /\ lastRefresh = ZeroTime
    /\ filterText = <<>>
    /\ labelInput = [value |-> <<>>, focus |-> FALSE]
    /\ err = NoErr
    /\ selected = <<>>
    /\ health = NoCheck
    /\ pending = startScans(NoScans, InitCmd(M))
    /\ parse = NoParse

OverlapKey ==
    \E msg \in OverlapKeys :
        LET r == Update(M, msg)
        IN /\ CanStart(r.cmd)
           /\ Assign(r.m)
           /\ Selects(r)
           /\ pending' = startScans(pending, r.cmd)

\* Any scan in flight may return next: each runs in its own goroutine.
OverlapScanDone ==
    \E s \in pending.flying : \E msg \in LoopScanMsgs :
        LET r == Update(M, msg)
            p == [pending EXCEPT !.flying = @ \ {s},
                                 !.held = IF msg.err = NoErr THEN s ELSE @]
        IN /\ Assign(r.m)
           /\ NoKey
           /\ pending' = startScans(p, r.cmd)

OverlapTick ==
    /\ pending.tick > 0
    /\ LET r == Update(M, tickMsg)
       IN /\ CanStart(r.cmd)
          /\ Assign(r.m)
          /\ NoKey
          /\ \E p \in complete(pending, "tick") : pending' = startScans(p, r.cmd)

OverlapKillDone ==
    /\ pending.kill > 0
    /\ \E msg \in KillMsgs :
        LET r == Update(M, msg)
        IN /\ CanStart(r.cmd)
           /\ Assign(r.m)
           /\ NoKey
           /\ \E p \in complete(pending, "kill") : pending' = startScans(p, r.cmd)

OverlapNext ==
    \/ OverlapKey
    \/ OverlapScanDone
    \/ OverlapTick
    \/ OverlapKillDone

SpecOverlap == OverlapInit /\ [][OverlapNext]_vars

-----------------------------------------------------------------------------
(* The hidden list of config.Config on its own: any list a configuration      *)
(* file can hold (yaml.Unmarshal keeps repeated ports), and one ToggleHidden  *)
(* per step                                                                   *)

HiddenPorts == {22, 3000, 8080}

\* The lists over ports of length n, and of length up to n.
RECURSIVE ListsOfLen(_, _)
ListsOfLen(ports, n) ==
    IF n = 0 THEN {<<>>}
    ELSE {Append(h, p) : h \in ListsOfLen(ports, n - 1), p \in ports}

HiddenLists == UNION {ListsOfLen(HiddenPorts, n) : n \in 0..MaxHidden}

HiddenInit ==
    /\ servers = <<>>
    /\ filtered = <<>>
    /\ cursor = 0
    /\ mode = modeNormal
    /\ \E h \in HiddenLists : config = [Default EXCEPT !.Hidden = h]
    /\ width = 0
    /\ height = 0
    /\ lastRefresh = ZeroTime
    /\ filterText = <<>>
    /\ labelInput = [value |-> <<>>, focus |-> FALSE]
    /\ err = NoErr
    /\ selected = <<>>
    /\ health = NoCheck
    /\ pending = NoPending
    /\ parse = NoParse

Toggle ==
    \E p \in HiddenPorts :
        /\ Len(ToggleHidden(config, p).Hidden) <= MaxHidden
        /\ config' = ToggleHidden(config, p)
        /\ UNCHANGED <<servers, filtered, cursor, mode, width, height, lastRefresh,
                       filterText, labelInput, err, selected, health, pending,
                       parse>>

HiddenNext == Toggle

SpecHidden == HiddenInit /\ [][HiddenNext]_vars

-----------------------------------------------------------------------------
(* The listing parsers: parseLsofOutput and parseProcNetTCP.  A listing is a  *)
(* sequence of lines, a line the sequence of its whitespace-separated fields  *)
(* (strings.Fields), a field a text; a blank line has no field                *)

\* The value of a digit; 99 for a character that is no digit in any base.
digitVal(c) ==
    CASE c = "0" -> 0 [] c = "1" -> 1 [] c = "2" -> 2 [] c = "3" -> 3
      [] c = "4" -> 4 [] c = "5" -> 5 [] c = "6" -> 6 [] c = "7" -> 7
      [] c = "8" -> 8 [] c = "9" -> 9
      [] c \in {"a", "A"} -> 10 [] c \in {"b", "B"} -> 11
      [] c \in {"c", "C"} -> 12 [] c \in {"d", "D"} -> 13
      [] c \in {"e", "E"} -> 14 [] c \in {"f", "F"} -> 15
      [] OTHER -> 99

RECURSIVE digitsValue(_, _)
digitsValue(t, base) ==
    IF t = <<>> THEN 0
    ELSE digitsValue(SubSeq(t, 1, Len(t) - 1), base) * base + digitVal(t[Len(t)])

\* strconv.ParseInt(t, base, 64) for a base of 10 or 16: an optional sign and
\* at least one digit of the base.  The texts of the model are too short to
\* leave the range of int64.
ParseInt(t, base) ==
    LET signed == t # <<>> /\ t[1] \in {"+", "-"}
        body == IF signed THEN Tail(t) ELSE t
        ok == body # <<>> /\ \A i \in 1..Len(body) : digitVal(body[i]) < base
    IN [ok |-> ok,
        n |-> IF ~ok THEN 0
              ELSE IF signed /\ t[1] = "-" THEN 0 - digitsValue(body, base)
              ELSE digitsValue(body, base)]

\* strconv.Atoi
Atoi(t) == ParseInt(t, 10)

\* strings.LastIndex(t, c) + 1: 0 if c does not occur.
LastIndex(t, c) ==
    IF \E i \in 1..Len(t) : t[i] = c
    THEN CHOOSE i \in 1..Len(t) : t[i] = c /\ \A j \in (i + 1)..Len(t) : t[j] # c
    ELSE 0

\* strings.Split(t, c): the parts of t between the occurrences of c.
RECURSIVE Split(_, _)
Split(t, c) ==
    IF \A i \in 1..Len(t) : t[i] # c THEN <<t>>
    ELSE LET i == CHOOSE k \in 1..Len(t) : t[k] = c /\ \A j \in 1..(k - 1) : t[j] # c
         IN <<SubSeq(t, 1, i - 1)>> \o Split(SubSeq(t, i + 1, Len(t)), c)

RECURSIVE dropLeadingBlank(_)
dropLeadingBlank(lines) ==
    IF lines # <<>> /\ Head(lines) = <<>> THEN dropLeadingBlank(Tail(lines)) ELSE lines

RECURSIVE dropTrailingBlank(_)
dropTrailingBlank(lines) ==
    IF lines # <<>> /\ lines[Len(lines)] = <<>>
    THEN dropTrailingBlank(SubSeq(lines, 1, Len(lines) - 1))
    ELSE lines

\* strings.Split(strings.TrimSpace(output), "\n"): the blank lines at both
\* ends are gone.
TrimSpace(lines) == dropTrailingBlank(dropLeadingBlank(lines))

LISTEN == <<"(", "L", "I", "S", "T", "E", "N", ")">>

\* Mutant of parseLsofLine: the last field is not compared with "(LISTEN)".
parseLsofLineAnyState(fields) ==
    IF Len(fields) < 10 THEN <<>>
    ELSE LET pid == Atoi(fields[2])
         IN IF ~pid.ok THEN <<>>
            ELSE LET nameField == fields[Len(fields) - 1]
                     lastColon == LastIndex(nameField, ":")
                 IN IF lastColon = 0 THEN <<>>
                    ELSE LET port == Atoi(SubSeq(nameField, lastColon + 1, Len(nameField)))
                         IN IF ~port.ok THEN <<>>
                            ELSE <<Server(port.n, pid.n, fields[1])>>

\* The body of the loop of parseLsofOutput: the entity of a line, or nothing.
parseLsofLine(fields) ==
    IF Len(fields) < 10 THEN <<>>
    ELSE LET pid == Atoi(fields[2])
         IN IF ~pid.ok THEN <<>>
            ELSE IF fields[Len(fields)] # LISTEN THEN <<>>
            ELSE LET nameField == fields[Len(fields) - 1]
                     lastColon == LastIndex(nameField, ":")
                 IN IF lastColon = 0 THEN <<>>
                    ELSE LET port == Atoi(SubSeq(nameField, lastColon + 1, Len(nameField)))
                         IN IF ~port.ok THEN <<>>
                            ELSE <<Server(port.n, pid.n, fields[1])>>

RECURSIVE lsofLoop(_, _)
lsofLoop(lines, srvs) ==
    IF lines = <<>> THEN srvs
    ELSE lsofLoop(Tail(lines), srvs \o parseLsofLine(Head(lines)))

parseLsofOutput(output) ==
    LET lines == TrimSpace(output)
    IN IF lines = <<>> THEN NilList
       ELSE IF Len(lines) <= 1 THEN NilList
       ELSE LET srvs == lsofLoop(Tail(lines), <<>>)
            IN IF Len(srvs) = 0 THEN NilList ELSE List(srvs)

\* The entity parseProcNetTCP appends: Server{Port: port, State: "LISTEN"}.
procServer(port) == Server(port, 0, <<>>)

\* Mutant of parseProcLine: the port is read in base 10.
parseProcLineDecimal(fields) ==
    IF Len(fields) < 4 THEN <<>>
    ELSE IF fields[4] # <<"0", "A">> THEN <<>>
    ELSE LET parts == Split(fields[2], ":")
         IN IF Len(parts) # 2 THEN <<>>
            ELSE LET port == ParseInt(parts[2], 10)
                 IN IF ~port.ok THEN <<>> ELSE <<procServer(port.n)>>

\* The body of the loop of parseProcNetTCP.
parseProcLine(fields) ==
    IF Len(fields) < 4 THEN <<>>
    ELSE IF fields[4] # <<"0", "A">> THEN <<>>
    ELSE LET parts == Split(fields[2], ":")
         IN IF Len(parts) # 2 THEN <<>>
            ELSE LET port == ParseInt(parts[2], 16)
                 IN IF ~port.ok THEN <<>> ELSE <<procServer(port.n)>>

RECURSIVE procLoop(_, _)
procLoop(lines, srvs) ==
    IF lines = <<>> THEN srvs
    ELSE procLoop(Tail(lines), srvs \o parseProcLine(Head(lines)))

parseProcNetTCP(content) ==
    LET lines == TrimSpace(content)
    IN IF Len(lines) <= 1 THEN NilList
       ELSE LET srvs == procLoop(Tail(lines), <<>>)
            IN IF Len(srvs) = 0 THEN NilList ELSE List(srvs)

\* A line of lsof: COMMAND PID USER FD TYPE DEVICE SIZE/OFF NODE NAME and the
\* state.
lsofLine(command, pid, name, state) ==
    <<command, pid, <<"u">>, <<"4">>, <<"I">>, <<"d">>, <<"0">>, <<"T">>, name, state>>

lsofHeader ==
    << <<"C">>, <<"P">>, <<"U">>, <<"F">>, <<"T">>, <<"D">>, <<"S">>, <<"N">>, <<"M">> >>

\* The lines lsof can print, and lines that are not a listener's: a blank
\* line, an address with more than one colon in a line of eleven fields, a
\* PID that is no number, another state, a name without a colon, a port that
\* is no number, a signed port, and a line of nine fields.
LsofLines ==
    { lsofHeader,
      <<>>,
      lsofLine(<<"q">>, <<"1", "2">>, <<"*", ":", "8", "0">>, LISTEN),
      <<<<"Q">>, <<"7">>, <<"r">>>>
          \o SubSeq(lsofLine(<<>>, <<>>, <<"[", ":", ":", "1", "]", ":", "2", "2">>, LISTEN), 3, 10),
      lsofLine(<<"q">>, <<"x">>, <<"*", ":", "8", "0">>, LISTEN),
      lsofLine(<<"q">>, <<"1", "2">>, <<"*", ":", "8", "0">>, <<"(", "E", ")">>),
      lsofLine(<<"q">>, <<"1", "2">>, <<"8", "0">>, LISTEN),
      lsofLine(<<"q">>, <<"1", "2">>, <<"*", ":", "h">>, LISTEN),
      lsofLine(<<"q">>, <<"1", "2">>, <<"*", ":", "-", "1">>, LISTEN),
      SubSeq(lsofLine(<<"q">>, <<"1", "2">>, <<"*", ":", "8", "0">>, LISTEN), 2, 10) }

\* A record of /proc/net/tcp: sl local_address rem_address st ...
procLine(local, st) == << <<"0", ":">>, local, <<"0", "0", ":", "0">>, st, <<"0">> >>

procHeader == << <<"s">>, <<"l">>, <<"r">>, <<"s", "t">>, <<"t">> >>

\* The records the kernel can print, and records that are not a listener's:
\* a blank line, another state, a local address without a colon, with two
\* colons, with a port that is no hexadecimal number, with an address half
\* that is none, and a record of three fields.
ProcLines ==
    { procHeader,
      <<>>,
      procLine(<<"0", "0", ":", "1", "F", "9", "0">>, <<"0", "A">>),
      procLine(<<"0", "0", ":", "0", "0", "5", "0">>, <<"0", "A">>),
      procLine(<<"0", "0", ":", "1", "F", "9", "0">>, <<"0", "1">>),
      procLine(<<"1", "F", "9", "0">>, <<"0", "A">>),
      procLine(<<"0", ":", "0", ":", "5", "0">>, <<"0", "A">>),
      procLine(<<"0", "0", ":", "G">>, <<"0", "A">>),
      procLine(<<"z", ":", "1", "6">>, <<"0", "A">>),
      SubSeq(procLine(<<"0", "0", ":", "1", "F", "9", "0">>, <<"0", "A">>), 2, 4) }

\* The listings of up to MaxLines lines.
LsofOutputs == UNION {ListsOfLen(LsofLines, n) : n \in 0..MaxLines}
ProcOutputs == UNION {ListsOfLen(ProcLines, n) : n \in 0..MaxLines}

ParseInit ==
    /\ servers = <<>>
    /\ filtered = <<>>
    /\ cursor = 0
    /\ mode = modeNormal
    /\ config = Default
    /\ width = 0
    /\ height = 0
    /\ lastRefresh = ZeroTime
    /\ filterText = <<>>
    /\ labelInput = [value |-> <<>>, focus |-> FALSE]
    /\ err = NoErr
    /\ selected = <<>>
    /\ health = NoCheck
    /\ pending = NoPending
    /\ \/ \E o \in LsofOutputs : parse = [NoParse EXCEPT !.by = "lsof", !.input = o]
       \/ \E o \in ProcOutputs : parse = [NoParse EXCEPT !.by = "proc", !.input = o]

ParseLsof ==
    /\ parse.by = "lsof"
    /\ ~parse.done
    /\ parse' = [parse EXCEPT !.done = TRUE, !.result = parseLsofOutput(parse.input)]
    /\ UNCHANGED <<modelVars, health, pending>>

ParseProc ==
    /\ parse.by = "proc"
    /\ ~parse.done
    /\ parse' = [parse EXCEPT !.done = TRUE, !.result = parseProcNetTCP(parse.input)]
    /\ UNCHANGED <<modelVars, health, pending>>

ParseNext ==
    \/ ParseLsof
    \/ ParseProc

SpecParse == ParseInit /\ [][ParseNext]_vars

-----------------------------------------------------------------------------
(* Properties of the state machine *)

NonNormal == {modeFilter, modeLabel, modeConfirmKill, modeHelp}

\* The reconciled known set, stated on its own: the scanned entities on ports
\* that are not hidden, in scan order, each with the stored label of its port
\* if there is one.
Labelled(e, c) ==
    IF e.Port \in DOMAIN c.Labels THEN [e EXCEPT !.Label = c.Labels[e.Port]] ELSE e

KnownOf(scanned, c) ==
    SelectSeq([i \in 1..Len(scanned) |-> Labelled(scanned[i], c)],
              LAMBDA e : e.Port \notin {c.Hidden[i] : i \in 1..Len(c.Hidden)})

VisibleOf(known, text) ==
    SelectSeq(known, LAMBDA e : text = <<>> \/ matchesFilter(e, text))

\* C1: in every reachable state the cursor is never negative, is below the
\* length of the visible set when that set is non-empty, and is 0 when it is
\* empty.
C1_CursorInRange ==
    /\ cursor >= 0
    /\ Len(filtered) > 0 => cursor < Len(filtered)
    /\ Len(filtered) = 0 => cursor = 0

\* The cursor sits on the last of several visible entities while a shorter
\* scan result is about to arrive.
C1_Witness ==
    /\ Len(filtered) > 1
    /\ cursor = Len(filtered) - 1
    /\ Update(M, scanResultMsg(<<>>, NoErr)).m.cursor = 0

\* C2 (as claimed): confirming in ConfirmKill mode returns to Normal and issues
\* exactly one kill effect, for the PID of the entity that was selected when
\* the kill key was pressed, whatever ticks and scan completions came between.
C2_KillsSelectedPID ==
    mode = modeConfirmKill =>
        LET r == Update(M, Rune("y"))
        IN /\ r.m.mode = modeNormal
           /\ r.cmd = <<doKill(selected[1].PID)>>

\* C3: a tick, scan-completion, kill-completion, persist-completion or
\* window-size event leaves the mode, the filter text and the label-input
\* text as they are, in every mode.
C3_BackgroundKeepsMode ==
    \A msg \in BackgroundMsgs :
        LET r == Update(M, msg)
        IN /\ r.m.mode = mode
           /\ r.m.filterText = filterText
           /\ r.m.labelInput.value = labelInput.value

\* In Label mode, with filter text and label text typed, a scan completion
\* that changes the known set is processed.
C3_Witness ==
    /\ mode = modeLabel
    /\ filterText # <<>>
    /\ labelInput.value # <<>>
    /\ \E msg \in ScanMsgs : Update(M, msg).m.servers # servers

\* C4: a tick, in any mode, emits exactly one scan effect and exactly one tick
\* rescheduled with the configured refresh interval, and changes no field of
\* the model.
C4_TickScansAndReschedules ==
    LET r == Update(M, tickMsg)
    IN /\ Len(r.cmd) = 2
       /\ CountCmd(r.cmd, "scan") = 1
       /\ \E i \in 1..Len(r.cmd) : r.cmd[i] = doTick(config.RefreshInterval)
       /\ r.m = M

\* A tick processed in ConfirmKill mode under the loaded configuration.
C4_Witness ==
    /\ mode = modeConfirmKill
    /\ config.RefreshInterval = Loaded.RefreshInterval
    /\ Update(M, tickMsg).cmd = <<doScan, doTick(Loaded.RefreshInterval)>>

\* C5 (as claimed): every scan completion, with a result or with an error,
\* replaces the known and visible sets by the reconciled server list of the
\* event and sets the last error to the event's error.
C5_EveryScanReconciles ==
    \A msg \in ScanMsgs :
        LET r == Update(M, msg)
        IN /\ r.m.servers = KnownOf(msg.servers, config)
           /\ r.m.filtered = VisibleOf(r.m.servers, filterText)
           /\ r.m.err = msg.err

\* C5 (amended): a scan completion without error replaces the known and
\* visible sets by the reconciled server list of the event and clears the last
\* error; a scan completion with an error sets the last error and leaves the
\* known and visible sets as they were.
C5_ScanReconcilesUnlessError ==
    \A msg \in ScanMsgs :
        LET r == Update(M, msg)
        IN IF msg.err = NoErr
           THEN /\ r.m.servers = KnownOf(msg.servers, config)
                /\ r.m.filtered = VisibleOf(r.m.servers, filterText)
                /\ r.m.err = NoErr
           ELSE /\ r.m.servers = servers
                /\ r.m.filtered = filtered
                /\ r.m.err = msg.err

\* A scan error arrived after a successful scan: the list is still held.
C5_Witness ==
    /\ err = ScanErr
    /\ servers # <<>>
    /\ filtered # <<>>

\* C6: the machine starts in Normal mode with cursor 0, no servers and no
\* error; every mode change is from Normal to another mode or from another
\* mode back to Normal; in Help mode every key leads to Normal with no effect.
C6_Start ==
    /\ mode = modeNormal
    /\ cursor = 0
    /\ servers = <<>>
    /\ filtered = <<>>
    /\ err = NoErr

C6_Step ==
    /\ mode' # mode =>
            \/ mode = modeNormal /\ mode' \in NonNormal
            \/ mode \in NonNormal /\ mode' = modeNormal
    /\ mode = modeHelp =>
            \A k \in Keys :
                LET r == Update(M, k)
                IN r.m.mode = modeNormal /\ r.cmd = <<>>

C6_ModeTransitions == C6_Start /\ [][C6_Step]_vars

\* Help mode, where the filter key closes the help and opens no filter.
C6_Witness ==
    /\ mode = modeHelp
    /\ Update(M, Rune("/")) = Ret([M EXCEPT !.mode = modeNormal], <<>>)

\* C7: a key that enters Filter, Label or ConfirmKill mode from Normal,
\* followed by Escape, returns to Normal; neither key event emits an effect,
\* and the label store, hidden set, known set, visible set, filter text and
\* cursor are what they were before the mode was entered.
C7_EscapeRestores ==
    mode = modeNormal =>
        \A k \in Keys :
            LET r1 == Update(M, k)
                r2 == Update(r1.m, KeyEsc)
            IN r1.m.mode \in {modeFilter, modeLabel, modeConfirmKill} =>
                /\ r2.m.mode = modeNormal
                /\ r1.cmd = <<>>
                /\ r2.cmd = <<>>
                /\ Snapshot(r2.m) = Snapshot(M)

\* Normal mode with a filter active and a stored label on the selected port:
\* the filter, kill and label keys each enter their mode, and the label input
\* is filled before Escape is pressed.
C7_Witness ==
    /\ mode = modeNormal
    /\ filterText # <<>>
    /\ Len(filtered) > 1
    /\ cursor > 0
    /\ Update(M, Rune("/")).m.mode = modeFilter
    /\ Update(M, Rune("x")).m.mode = modeConfirmKill
    /\ Update(M, Rune("l")).m.mode = modeLabel
    /\ Update(M, Rune("l")).m.labelInput.value # <<>>
    /\ Update(Update(M, Rune("l")).m, KeyEsc).m.mode = modeNormal

C9_EnterStoresLabelOfSelectedPort ==
    (mode = modeLabel /\ Len(filtered) > 0) =>
        LET r == Update(M, KeyEnter)
            port == filtered[cursor + 1].Port
            text == labelInput.value
            old == config.Labels
            new == r.m.config.Labels
        IN /\ IF text = <<>> THEN port \notin DOMAIN new
              ELSE port \in DOMAIN new /\ new[port] = text
           /\ (DOMAIN new) \ {port} = (DOMAIN old) \ {port}
           /\ \A p \in (DOMAIN old) \ {port} : new[p] = old[p]
           /\ r.m.config.Hidden = config.Hidden
           /\ r.m.config.PortRange = config.PortRange
           /\ r.m.config.RefreshInterval = config.RefreshInterval

\* Enter with an empty input on a port that has a stored label, while another
\* port has a stored label too.
C9_Witness ==
    /\ mode = modeLabel
    /\ Len(filtered) > 0
    /\ labelInput.value = <<>>
    /\ filtered[cursor + 1].Port \in DOMAIN config.Labels
    /\ Cardinality(DOMAIN config.Labels) = 2
    /\ Cardinality(DOMAIN Update(M, KeyEnter).m.config.Labels) = 1

\* C10 (as claimed): after Label-mode Enter on a non-empty visible set every
\* entity on the selected port carries the entered text as its label, in the
\* known set and in the visible set, and the label of every entity on another
\* port is unchanged.
C10_EnterLabelsEveryEntityOnPort ==
    (mode = modeLabel /\ Len(filtered) > 0) =>
        LET r == Update(M, KeyEnter)
            port == filtered[cursor + 1].Port
            text == labelInput.value
        IN /\ \A i \in 1..Len(servers) :
                r.m.servers[i].Label =
                    IF servers[i].Port = port THEN text ELSE servers[i].Label
           /\ \A i \in 1..Len(filtered) :
                r.m.filtered[i].Label =
                    IF filtered[i].Port = port THEN text ELSE filtered[i].Label

\* C11: in Normal mode with an empty visible set the kill key, the label key
\* and the open keys change no field of the model and emit no effect.
C11_EmptyVisibleNoOps ==
    (mode = modeNormal /\ filtered = <<>>) =>
        \A k \in {Rune("x"), Rune("l"), Rune("o"), KeyEnter} :
            Update(M, k) = Ret(M, <<>>)

\* Normal mode where the filter text hides every known entity.
C11_Witness ==
    /\ mode = modeNormal
    /\ filtered = <<>>
    /\ servers # <<>>
    /\ Update(M, Rune("x")).m.mode = modeNormal
    /\ Update(M, Rune("l")).m.labelInput = labelInput

\* C12: every kill-completion event, of a kill that succeeded or failed and in
\* whatever mode it arrives, triggers exactly one scan effect and nothing else.
C12_KillResultRescans ==
    \A msg \in KillMsgs : Update(M, msg).cmd = <<doScan>>

\* A failed kill completes while Label mode is active.
C12_Witness ==
    /\ mode = modeLabel
    /\ killResultMsg(1, KillErr) \in KillMsgs
    /\ Update(M, killResultMsg(1, KillErr)).cmd = <<doScan>>

\* C13: a persist-completion event that reports a failure changes only the last
\* error, which becomes the save error; a successful one changes no field, an
\* existing last error included; neither emits an effect.
C13_LabelSavedOnlySetsError ==
    \A msg \in SavedMsgs :
        LET r == Update(M, msg)
        IN /\ r.cmd = <<>>
           /\ r.m = IF msg.err = NoErr THEN M ELSE [M EXCEPT !.err = msg.err]

\* A last error is held when a successful and a failed persist complete.
C13_Witness ==
    /\ err = ScanErr
    /\ Update(M, labelSavedMsg(NoErr)).m.err = ScanErr
    /\ Update(M, labelSavedMsg(SaveErr)).m.err = SaveErr

\* The index in R of the k-th entity of R whose port is not in the hidden list.
KeptIndex(R, hidden, k) ==
    LET kept == {i \in 1..Len(R) : \A j \in 1..Len(hidden) : hidden[j] # R[i].Port}
    IN CHOOSE i \in kept : Cardinality({j \in kept : j < i}) = k - 1

\* C14: with an empty filter text, a successful scan completion with result R
\* makes the known set and the visible set both exactly the entities of R whose
\* port is not hidden, in R's order, each with the stored label of its port
\* when the store has one and as scanned otherwise.
C14_ScanKeepsUnhiddenLabelled ==
    filterText = <<>> =>
        \A msg \in ScanMsgs :
            msg.err = NoErr =>
                LET R == msg.servers
                    known == Update(M, msg).m.servers
                    visible == Update(M, msg).m.filtered
                    nkept == Cardinality({i \in 1..Len(R) : ~IsHidden(config, R[i].Port)})
                IN /\ visible = known
                   /\ Len(known) = nkept
                   /\ \A k \in 1..nkept :
                        LET e == R[KeptIndex(R, config.Hidden, k)]
                        IN known[k] = [e EXCEPT !.Label =
                                          IF e.Port \in DOMAIN config.Labels
                                          THEN config.Labels[e.Port] ELSE e.Label]

\* A port is hidden and another has a stored label; a scan that reports both
\* leaves exactly the labelled entity.
C14_Witness ==
    /\ filterText = <<>>
    /\ servers # <<>>
    /\ config.Hidden = <<3000>>
    /\ 8080 \in DOMAIN config.Labels
    /\ LET msg == scanResultMsg(<<Discovered[1], Discovered[3]>>, NoErr)
       IN /\ msg \in ScanMsgs
          /\ Update(M, msg).m.filtered =
                <<[Discovered[1] EXCEPT !.Label = config.Labels[8080]]>>

\* The k-th smallest member of a set of indices.
NthOf(S, k) == CHOOSE i \in S : Cardinality({j \in S : j < i}) = k - 1

\* C15: applyFilter makes the visible set exactly the known entities, in
\* known-set order, for which the filter text is empty, or the lower-cased
\* filter text is a substring of the lower-cased process name or label, or the
\* filter text as typed is a substring of the decimal port text.
C15_VisibleIffMatches ==
    LET visible == applyFilter(M).filtered
        shown(e) ==
            \/ filterText = <<>>
            \/ Contains(ToLower(e.Process), ToLower(filterText))
            \/ Contains(ToLower(e.Label), ToLower(filterText))
            \/ Contains(Itoa(e.Port), filterText)
        keep == {i \in 1..Len(servers) : shown(servers[i])}
    IN /\ Len(visible) = Cardinality(keep)
       /\ \A k \in 1..Len(visible) : visible[k] = servers[NthOf(keep, k)]

\* An upper-case filter text has been applied: it shows an entity by its
\* lower-case process name and hides another.
C15_Witness ==
    /\ filterText = <<"Q">>
    /\ filtered = applyFilter(M).filtered
    /\ filtered # <<>>
    /\ Len(filtered) < Len(servers)
    /\ \E i \in 1..Len(filtered) :
            filtered[i].Process = <<"q">> /\ filtered[i].Label = <<>>

\* The three passes in the order of the scan-completion handler.
Reconcile(m) == applyFilter(filterHidden(mergeLabels(m)))

\* C16: the reconciler passes are idempotent: each pass, and the three in
\* sequence, applied a second time with the same label store, hidden set and
\* filter text, leave the known set, the visible set, every label and the
\* cursor unchanged.
C16_PassesIdempotent ==
    /\ mergeLabels(mergeLabels(M)) = mergeLabels(M)
    /\ filterHidden(filterHidden(M)) = filterHidden(M)
    /\ applyFilter(applyFilter(M)) = applyFilter(M)
    /\ Reconcile(Reconcile(M)) = Reconcile(M)

\* The passes relabel an entity, remove a hidden one, filter one out and pull
\* the cursor back.
C16_Witness ==
    LET m1 == Reconcile(M)
    IN /\ mergeLabels(M).servers # servers
       /\ Len(filterHidden(M).servers) < Len(servers)
       /\ Len(m1.filtered) < Len(m1.servers)
       /\ m1.cursor < cursor
       /\ Reconcile(m1) = m1

\* C17 (as claimed): after the label-merge pass every entity whose port has no
\* entry in the label store has an empty label, whatever it carried before,
\* and every entity whose port has an entry carries the stored label.
C17_MergeOverwritesEveryLabel ==
    LET merged == mergeLabels(M).servers
    IN /\ Len(merged) = Len(servers)
       /\ \A i \in 1..Len(servers) :
            merged[i].Label =
                IF servers[i].Port \in DOMAIN config.Labels
                THEN config.Labels[servers[i].Port] ELSE <<>>

\* C17 (amended): after the label-merge pass every entity whose port has an
\* entry in the label store carries the stored label, and every other entity
\* keeps the label it carried before the pass; no other field changes.
C17_MergeOverwritesStoredOnly ==
    LET merged == mergeLabels(M).servers
    IN /\ Len(merged) = Len(servers)
       /\ \A i \in 1..Len(servers) :
            merged[i] = [servers[i] EXCEPT !.Label =
                            IF servers[i].Port \in DOMAIN config.Labels
                            THEN config.Labels[servers[i].Port]
                            ELSE servers[i].Label]
       /\ mergeLabels(M) = [M EXCEPT !.servers = merged]

\* The pass has run over an entity that keeps a label of its own, its port
\* having no stored label, and an entity that carries its port's stored label.
C17_Witness ==
    /\ mergeLabels(M).servers = servers
    /\ \E i \in 1..Len(servers) :
            servers[i].Port \notin DOMAIN config.Labels /\ servers[i].Label # <<>>
    /\ \E i \in 1..Len(servers) :
            /\ servers[i].Port \in DOMAIN config.Labels
            /\ servers[i].Label = config.Labels[servers[i].Port]
            /\ servers[i] \notin {PassDiscovered[j] : j \in 1..Len(PassDiscovered)}

\* The ports of a server list, in order.
PortsOf(srvs) == [i \in 1..Len(srvs) |-> srvs[i].Port]

ScanPorts == {ScanDiscovered[i].Port : i \in 1..Len(ScanDiscovered)}

\* Both scanners keep, of a listing that did not fail, exactly the sockets
\* whose port is in the set ports, in the order of the listing.
ScannersKeep(ports) ==
    \A listing \in Listings :
      \A lk \in Lookups(listing.sockets) :
        listing.err = NoErr =>
            LET kept == SelectSeq(PortsOf(listing.sockets), LAMBDA p : p \in ports)
            IN /\ PortsOf(darwinScan(config.PortRange, listing, lk).servers) = kept
               /\ PortsOf(linuxScan(config.PortRange, listing, lk).servers) = kept

\* C18 (as claimed): in the scanner's port-range filter a zero bound disables
\* only that bound: with min = 0 a port is kept iff port <= max, with max = 0
\* iff port >= min, with both zero always.
C18_ZeroBoundDisablesThatBound ==
    LET pr == config.PortRange
    IN ScannersKeep({p \in ScanPorts :
                        (pr.Min = 0 \/ p >= pr.Min) /\ (pr.Max = 0 \/ p <= pr.Max)})

\* C19: the scanner keeps an entity iff both bounds are zero or
\* min <= port <= max; with min = 1024 and max = 65535 ports 1023 and 65536
\* are dropped and 1024 and 65535 are kept.
C19_KeepsIffInRangeOrNoRange ==
    LET pr == config.PortRange
    IN /\ ScannersKeep({p \in ScanPorts :
                           (pr.Min = 0 /\ pr.Max = 0) \/ (pr.Min <= p /\ p <= pr.Max)})
       /\ pr = PortRange(1024, 65535) =>
            \A lk \in Lookups(SubSeq(ScanDiscovered, 1, 2)) :
                PortsOf(darwinScan(pr, [err |-> NoErr,
                                        sockets |-> SubSeq(ScanDiscovered, 1, 2)],
                                   lk).servers) = <<1024>>

\* Under the default range a scan of ports 65535 and 65536 has left 65535.
C19_Witness ==
    /\ config.PortRange = PortRange(1024, 65535)
    /\ PortsOf(servers) = <<65535>>
    /\ LET listing == [err |-> NoErr, sockets |-> SubSeq(ScanDiscovered, 3, 4)]
       IN /\ listing \in Listings
          /\ PortsOf(linuxScan(config.PortRange, listing, NoLookups).servers) = <<65535>>

\* C20: when the listing source fails, Scan returns the error and no entity
\* and attempts no resolution step; no Scan call returns both an error and a
\* non-empty entity list.
C20_ListingFailureReturnsNothing ==
    \A listing \in Listings :
      \A lk \in Lookups(listing.sockets) :
        LET d == darwinScan(config.PortRange, listing, lk)
            l == linuxScan(config.PortRange, listing, lk)
        IN /\ listing.err # NoErr =>
                /\ d = [servers |-> <<>>, err |-> listing.err, lookups |-> <<>>]
                /\ l = [servers |-> <<>>, err |-> listing.err, lookups |-> <<>>]
           /\ ~(d.err # NoErr /\ d.servers # <<>>)
           /\ ~(l.err # NoErr /\ l.servers # <<>>)

\* A listing failed after printing sockets that pass the range filter, and its
\* scan completion has been processed while servers were held.
C20_Witness ==
    /\ err = ScanErr
    /\ servers # <<>>
    /\ \E listing \in Listings :
            /\ listing.err # NoErr
            /\ \E i \in 1..Len(listing.sockets) :
                    portRangeKeeps(config.PortRange, listing.sockets[i].Port)
            /\ darwinScan(config.PortRange, listing, NoLookups).servers = <<>>

\* r is the parsed entity e with at most PID, process and command resolved.
ResolvedFrom(r, e) ==
    /\ r.Port = e.Port
    /\ r.State = e.State
    /\ r.Label = e.Label
    /\ r.Healthy = e.Healthy

\* out returns no error and, in order, the entities of parsed whose port passes
\* the range filter, each with only PID, process and command possibly changed.
KeepsParsed(out, parsed) ==
    LET keep == {i \in 1..Len(parsed) :
                    \/ config.PortRange.Min = 0 /\ config.PortRange.Max = 0
                    \/ /\ config.PortRange.Min <= parsed[i].Port
                       /\ parsed[i].Port <= config.PortRange.Max}
    IN /\ out.err = NoErr
       /\ Len(out.servers) = Cardinality(keep)
       /\ \A k \in 1..Len(out.servers) :
            ResolvedFrom(out.servers[k], parsed[NthOf(keep, k)])

\* C21: whatever subset of the PID, process and command lookups fails, the
\* failure of the whole side-channel listing included, Scan returns no error
\* and exactly the parsed entities whose port passes the range filter, in
\* discovery order, with only PID, process and command possibly unresolved.
C21_LookupFailuresKeepEntities ==
    \A listing \in Listings :
      \A lk \in Lookups(listing.sockets) :
        listing.err = NoErr =>
            /\ KeepsParsed(darwinScan(config.PortRange, listing, lk), listing.sockets)
            /\ KeepsParsed(linuxScan(config.PortRange, listing, lk),
                           [i \in 1..Len(listing.sockets) |->
                                procNetSocket(listing.sockets[i])])

\* A linux scan whose side-channel listing failed has delivered as many
\* entities as a scan can list, none of them resolved; and a darwin scan in
\* which ps finds one process and not the other keeps both entities.
C21_Witness ==
    /\ err = NoErr
    /\ Len(servers) = MaxScanLen
    /\ \A i \in 1..Len(servers) : servers[i].PID = 0 /\ servers[i].Process = <<>>
    /\ \E listing \in Listings :
            /\ listing.err = NoErr
            /\ linuxScan(config.PortRange, listing, NoLookups).servers = servers
            /\ \E lk \in Lookups(listing.sockets) :
                    /\ lk.found # {}
                    /\ \E i \in 1..Len(listing.sockets) : listing.sockets[i].PID \notin lk.found
                    /\ Len(darwinScan(config.PortRange, listing, lk).servers) = Len(servers)

\* The call of CheckHealth in progress has copied its input.
Copied == health.pc \in {"spawn", "wait", "returned"}

Returned == health.pc = "returned"

\* C22: CheckHealth never changes its input; its result has the length of the
\* input, and element i of the result equals element i of the input in every
\* field other than Healthy.
C22_InputKeptResultSeparate ==
    /\ [][health'.input = health.input]_vars
    /\ [](Copied =>
            /\ Len(health.result) = Len(health.input)
            /\ \A k \in 1..Len(health.input) :
                  [health.result[k] EXCEPT !.Healthy = health.input[k].Healthy]
                      = health.input[k])

\* A call has returned a list that differs from its input.
C22_Witness ==
    /\ Returned
    /\ \E k \in 1..Len(health.input) :
          /\ health.result[k].Healthy
          /\ ~health.input[k].Healthy

\* C23: the Healthy flag of element i of the result is true exactly when the
\* probe's connection to port i was established, whatever the flag of the
\* input element was.
C23_HealthyIffEstablished ==
    Returned =>
        \A k \in 1..Len(health.result) :
            health.result[k].Healthy <=> health.task[k].conn = "established"

\* C24: CheckHealth returns only after every probe task has completed, and
\* returns if every probe terminates: at the return no task is running, none
\* writes to the result afterwards, and the call does return.
C24_JoinBarrier ==
    /\ [](Returned => \A k \in DOMAIN health.task : health.task[k].pc = "done")
    /\ [][Returned => health'.result = health.result]_vars
    /\ <>Returned

\* A call has returned after a probe that set a flag and one that failed.
C24_Witness ==
    /\ Returned
    /\ \E k \in DOMAIN health.task : health.task[k].conn = "established"
    /\ \E k \in DOMAIN health.task : health.task[k].conn = "timeout"

\* C25: the label map handed to a save is never written while that save is in
\* flight: while a save command has not returned its message, no key event
\* runs SetLabel or RemoveLabel (the Enter branch that returns the next save).
C25_NoLabelWriteDuringSave ==
    pending.save > 0 =>
        \A msg \in LoopKeys \cap KeysNow : CountCmd(Update(M, msg).cmd, "save") = 0

\* A save is in flight and the Enter key writes the next label.
C25_Witness ==
    /\ pending.save > 0
    /\ mode = modeLabel
    /\ filtered # <<>>

\* Update handles msg in m as it does when no error is recorded.
HandledAsWithoutError(m, msg) ==
    LET r == Update(m, msg)
        r0 == Update([m EXCEPT !.err = NoErr], msg)
    IN /\ r.cmd = r0.cmd
       /\ [r.m EXCEPT !.err = NoErr] = [r0.m EXCEPT !.err = NoErr]

\* C26: a failed scan does not stop the event loop and is retried: the failed
\* scan completion returns no command (it does not quit), every message is
\* handled after it as without the error, a successful scan completion
\* clears the error, and under fair delivery of ticks a new scan is started.
C26_ScanFailureRetried ==
    /\ [](\A msg \in ScanMsgs :
            LET r == Update(M, msg)
            IN /\ r.cmd = <<>>
               /\ msg.err = NoErr => r.m.err = NoErr
               /\ msg.err # NoErr =>
                    \A later \in Keys \cup BackgroundMsgs \cup {otherMsg} :
                        HandledAsWithoutError(r.m, later))
    /\ \A e \in {0, 1} :
          (err = ScanErr /\ pending.epoch = e) ~> (pending.epoch # e)

\* A scan has failed and the scan that retries it is in flight.
C26_Witness ==
    /\ err = ScanErr
    /\ lastRefresh = ZeroTime
    /\ mode = modeNormal
    /\ pending.scan = 1
    /\ pending.epoch = 0

\* C27: for every hidden list and every port p, ToggleHidden(p) negates
\* IsHidden(p) and leaves IsHidden(q) as it was for every other port q, and
\* two ToggleHidden(p) in a row restore IsHidden of every port.
C27_ToggleNegatesHidden ==
    \A p \in HiddenPorts :
        LET c1 == ToggleHidden(config, p)
            c2 == ToggleHidden(c1, p)
        IN /\ IsHidden(c1, p) = ~IsHidden(config, p)
           /\ \A q \in HiddenPorts \ {p} : IsHidden(c1, q) = IsHidden(config, q)
           /\ \A q \in HiddenPorts : IsHidden(c2, q) = IsHidden(config, q)

\* An optional sign and at least one decimal digit.
IsInteger(t) ==
    LET body == IF t # <<>> /\ t[1] \in {"+", "-"} THEN Tail(t) ELSE t
    IN /\ body # <<>>
       /\ \A i \in 1..Len(body) : body[i] \in {Digits[k] : k \in 1..Len(Digits)}

\* An optional sign and at least one hexadecimal digit.
IsHexNumber(t) ==
    LET body == IF t # <<>> /\ t[1] \in {"+", "-"} THEN Tail(t) ELSE t
    IN /\ body # <<>>
       /\ \A i \in 1..Len(body) :
             body[i] \in {Digits[k] : k \in 1..Len(Digits)}
                            \cup {"a", "b", "c", "d", "e", "f", "A", "B", "C", "D", "E", "F"}

Colons(t) == {i \in 1..Len(t) : t[i] = ":"}

AfterLastColon(t) == SubSeq(t, LastIndex(t, ":") + 1, Len(t))

\* The lines of a listing after its header, the first line that is not blank.
DataLines(input) ==
    IF \A i \in 1..Len(input) : input[i] = <<>> THEN <<>>
    ELSE LET first == CHOOSE i \in 1..Len(input) :
                          input[i] # <<>> /\ \A j \in 1..(i - 1) : input[j] = <<>>
         IN SubSeq(input, first + 1, Len(input))

\* A line of lsof that is a listener's.
LsofListener(fields) ==
    /\ Len(fields) >= 10
    /\ IsInteger(fields[2])
    /\ fields[Len(fields)] = LISTEN
    /\ Colons(fields[Len(fields) - 1]) # {}
    /\ IsInteger(AfterLastColon(fields[Len(fields) - 1]))

\* C28: parseLsofOutput returns one entity, in input order, for exactly the
\* lines after the header that have at least 10 fields, an integer second
\* field, "(LISTEN)" as last field and an integer after the last colon of the
\* field before it; every entity has state LISTEN (and the line's PID, port
\* and command); the result is nil exactly when no line is such a line.
C28_LsofEntityPerListenerLine ==
    (parse.by = "lsof" /\ parse.done) =>
        LET kept == SelectSeq(DataLines(parse.input), LsofListener)
            out == parse.result
        IN /\ Len(out.servers) = Len(kept)
           /\ \A k \in 1..Len(kept) :
                 LET fields == kept[k]
                 IN /\ out.servers[k].State = "LISTEN"
                    /\ out.servers[k].Process = fields[1]
                    /\ out.servers[k].PID = Atoi(fields[2]).n
                    /\ out.servers[k].Port = Atoi(AfterLastColon(fields[Len(fields) - 1])).n
           /\ out.nil <=> kept = <<>>

\* Two listeners were parsed in input order, the second from a line of eleven
\* fields whose address holds more than one colon.
C28_Witness ==
    /\ parse.by = "lsof"
    /\ parse.done
    /\ parse.result = List(<<Server(80, 12, <<"q">>), Server(22, 7, <<"Q">>)>>)

\* A record of /proc/net/tcp whose local address is hex_ip:hex_port.
ProcListenerHexAddress(fields) ==
    /\ Len(fields) >= 4
    /\ fields[4] = <<"0", "A">>
    /\ Cardinality(Colons(fields[2])) = 1
    /\ IsHexNumber(SubSeq(fields[2], 1, LastIndex(fields[2], ":") - 1))
    /\ IsHexNumber(AfterLastColon(fields[2]))

\* A record whose local address has one colon and a hexadecimal number after
\* it.
ProcListener(fields) ==
    /\ Len(fields) >= 4
    /\ fields[4] = <<"0", "A">>
    /\ Cardinality(Colons(fields[2])) = 1
    /\ IsHexNumber(AfterLastColon(fields[2]))

\* The result of parseProcNetTCP is one entity per record of kept, in order,
\* with the port read in base 16 and nothing else but the state populated,
\* and is nil exactly when kept is empty.
ProcResultIs(out, kept) ==
    /\ Len(out.servers) = Len(kept)
    /\ \A k \in 1..Len(kept) :
          out.servers[k] =
              [Port |-> ParseInt(AfterLastColon(kept[k][2]), 16).n, PID |-> 0,
               Process |-> <<>>, Command |-> <<>>, State |-> "LISTEN",
               Label |-> <<>>, Healthy |-> FALSE]
    /\ out.nil <=> kept = <<>>

\* C29 as stated: parseProcNetTCP returns one entity, in input order, for
\* exactly the records after the header with at least 4 fields, "0A" as
\* field 3 and a field 1 of the form hex_ip:hex_port.
C29_ProcEntityPerHexAddress ==
    (parse.by = "proc" /\ parse.done) =>
        ProcResultIs(parse.result, SelectSeq(DataLines(parse.input), ProcListenerHexAddress))

\* C29: parseProcNetTCP returns one entity, in input order, for exactly the
\* records after the header with at least 4 fields, "0A" as field 3 and a
\* field 1 with exactly one colon and a base-16 number after it (the half
\* before the colon is not examined); each entity has only port and state
\* LISTEN populated; the result is nil exactly when no record is such a record.
C29_ProcEntityPerListenRecord ==
    (parse.by = "proc" /\ parse.done) =>
        ProcResultIs(parse.result, SelectSeq(DataLines(parse.input), ProcListener))

\* Two records were parsed in input order: 1F90 as port 8080, and a record
\* whose address half is no hexadecimal number.
C29_Witness ==
    /\ parse.by = "proc"
    /\ parse.done
    /\ parse.result = List(<<procServer(8080), procServer(22)>>)

\* C30: the Healthy flag of every entity held after a scan completion is the
\* outcome of a probe of its port made in that scan cycle: whichever ports
\* accept a connection, an entity held after the scan completion of a listing
\* that did not fail is healthy exactly when its port does.
C30_HeldHealthyIsProbeOutcome ==
    \A accepting \in SUBSET ScanPorts :
      \A listing \in Listings :
        \A lk \in DarwinLookups(listing) :
          LET d == darwinScan(config.PortRange, listing, lk)
              l == linuxScan(config.PortRange, listing, lk)
          IN listing.err = NoErr =>
               \A out \in {d, l} :
                 LET held == Update(M, scanResultMsg(out.servers, out.err)).m.servers
                 IN \A i \in 1..Len(held) :
                       held[i].Healthy <=> held[i].Port \in accepting

\* C31: in every interleaving, probe task i reads and writes only element i of
\* the result, so no two tasks access the same element, and no task writes
\* the caller's input list.
C31_TasksIndexDisjoint ==
    /\ [](\A a \in health.acc : a.slot = a.task)
    /\ [](\A a, b \in health.acc : a.slot = b.slot => a.task = b.task)
    /\ [][\A k \in 1..Len(health.input) : health'.input[k] = health.input[k]]_vars

\* Two tasks have both read and written their elements before the call
\* returned.
C31_Witness ==
    /\ health.pc = "wait"
    /\ \E j, k \in DOMAIN health.task :
          /\ j # k
          /\ {Access(j, j, "read"), Access(j, j, "write"),
              Access(k, k, "read"), Access(k, k, "write")} \subseteq health.acc

\* C32: a scan completion that carries an error changes only the last error:
\* the known set, the visible set, the cursor, the filter text, the label
\* store and every other field are what they were, and no command is returned.
C32_ScanErrorOnlySetsError ==
    \A msg \in ScanMsgs :
        msg.err # NoErr =>
            LET r == Update(M, msg)
            IN /\ r.m = [M EXCEPT !.err = msg.err]
               /\ r.m.servers = servers
               /\ r.m.filtered = filtered
               /\ r.m.cursor = cursor
               /\ r.m.filterText = filterText
               /\ r.m.config.Labels = config.Labels
               /\ r.cmd = <<>>

\* A failed scan was processed while a filtered list with a stored label was
\* shown and the cursor was off the first row.
C32_Witness ==
    /\ err = ScanErr
    /\ cursor > 0
    /\ filterText # <<>>
    /\ DOMAIN config.Labels # {}
    /\ Len(filtered) > 1

\* C33: from Init onward exactly one tick timer is outstanding: no sequence of
\* key events, scan, kill and save completions and ticks leaves no pending
\* tick or more than one.
C33_OneTickOutstanding ==
    /\ pending.tick = 1
    /\ \A msg \in Keys \cup BackgroundMsgs \cup {otherMsg} :
          CountCmd(Update(M, msg).cmd, "tick") = IF msg = tickMsg THEN 1 ELSE 0

\* A tick has been delivered and rescheduled while scans, a kill and a save
\* were in flight.
C33_Witness ==
    /\ pending.tick = 1
    /\ pending.epoch = 0
    /\ pending.scan = MaxPending
    /\ pending.kill = 1
    /\ pending.save = 1

\* C34: in every reachable state the visible set is the text filter applied
\* to the known set with the current filter text (the known set itself when
\* the filter text is empty), also after a label was set or removed in Label
\* mode while a filter is active.
C34_VisibleIsFilterOfKnown ==
    filtered = VisibleOf(servers, filterText)

\* C35: a kill effect is issued only for a resolved process: in no reachable
\* state does a key event return a kill command for PID 0.
C35_NoKillOfPIDZero ==
    \A msg \in Keys :
        LET cmd == Update(M, msg).cmd
        IN \A i \in 1..Len(cmd) : cmd[i].type = "kill" => cmd[i].pid # 0

\* C36: the port whose stored label is set or removed by Label-mode Enter is
\* the port that was selected when the label key was pressed, whatever tick
\* and scan-completion events were processed in Label mode: Enter leaves the
\* stored label of every other port as it was.
C36_EnterLabelsPortSelectedAtLabelKey ==
    (mode = modeLabel /\ selected # <<>>) =>
        LET r == Update(M, KeyEnter)
            old == config.Labels
            new == r.m.config.Labels
        IN \A p \in ((DOMAIN old) \cup (DOMAIN new)) \ {selected[1].Port} :
              /\ p \in DOMAIN old
              /\ p \in DOMAIN new
              /\ new[p] = old[p]

\* C37: with several scans in flight, the held known set is never replaced by
\* the result of a scan that was started before the scan whose result is
\* currently held.
C37_HeldNotReplacedByEarlierScan == [][pending'.held >= pending.held]_vars

\* C38: quit is emitted only when a quit key (q or ctrl+c) is processed in
\* Normal mode, and by no other message; a key event emits a scan or an open
\* effect only in Normal mode and a kill effect only in ConfirmKill mode.
C38_EffectsOnlyFromTheirModes ==
    \A msg \in Keys \cup BackgroundMsgs :
        LET cmd == Update(M, msg).cmd
            isKey == msg.type = "KeyMsg"
        IN /\ CountCmd(cmd, "quit") > 0 =>
                (isKey /\ mode = modeNormal /\ Matches(msg, keysQuit))
           /\ (isKey /\ CountCmd(cmd, "scan") > 0) => mode = modeNormal
           /\ (isKey /\ CountCmd(cmd, "open") > 0) => mode = modeNormal
           /\ (isKey /\ CountCmd(cmd, "kill") > 0) => mode = modeConfirmKill

\* In ConfirmKill mode over a non-empty visible set the quit keys emit
\* nothing and the confirm key emits the kill.
C38_Witness ==
    /\ mode = modeConfirmKill
    /\ Len(filtered) > 0
    /\ Update(M, Rune("q")).cmd = <<>>
    /\ Update(M, Special("ctrl+c")).cmd = <<>>
    /\ CountCmd(Update(M, Rune("y")).cmd, "kill") = 1

\* C39: Config.InPortRange(p) is true exactly when the scanner's port-range
\* filter keeps port p, for every port range, those with one or both bounds
\* equal to zero included.
C39_InPortRangeIsScannerFilter ==
    \A p \in ScanPorts :
        /\ InPortRange(config, p) <=> portRangeKeeps(config.PortRange, p)
        /\ ScannersKeep({q \in ScanPorts : InPortRange(config, q)})

\* C40: in every state reachable through Update no entity whose port is in
\* the hidden set is in the known set or in the visible set, the visible set
\* is an order-preserving sub-list of the known set, and no message changes
\* the hidden set.
C40_HiddenAbsentVisibleSubListOfKnown ==
    /\ \A i \in 1..Len(servers) : ~IsHidden(config, servers[i].Port)
    /\ \A i \in 1..Len(filtered) : ~IsHidden(config, filtered[i].Port)
    /\ filtered \in SubLists(servers)
    /\ \A msg \in Keys \cup BackgroundMsgs :
          Update(M, msg).m.config.Hidden = config.Hidden

====
